---- MODULE Spec2Model ----
(***************************************************************************)
(* Workload resolution of src/business/workloads.go: fetchWorkloads,       *)
(* fetchWorkload, updateWorkload and controllerPriority, their fetch       *)
(* batches, the proxy-status loop and the operations of WorkloadService,   *)
(* the time window of getParsedLogs, and the stop channel of the cache of  *)
(* src/unnamed/part_002.                                                   *)
(*                                                                         *)
(* The answers of the namespace service and of the Kubernetes API (or the  *)
(* cache) are inputs: each operation draws them when it makes the call.    *)
(* The range over the controllers map, which the code mutates while it     *)
(* iterates, is modelled one iteration per step, in any order Go allows.   *)
(***************************************************************************)
EXTENDS Integers, Sequences, FiniteSets, TLC

VARIABLES
    op,            \* the operation in progress, "none" when there is none
    pc,            \* its position: "idle", "hop", "done"
    args,          \* its arguments
    calls,         \* the list/get/patch calls issued so far by the operation
    failed,        \* the kinds whose call answered an error other than not-found
    fetched,       \* the result slots of the fetch batch
    controllers,   \* Key: name of controller; Value: type of controller
    todo,          \* keys the range over controllers may still produce
    ws,            \* the workloads returned
    err,           \* the error returned
    namespace,     \* the answer of GetNamespace: "", "ok" or "error"
    patched,       \* updateWorkload: the kinds that accepted the patch
    env,           \* configuration: IsOpenShift, excludedWorkloads, IsNamespaceCached
    prio,          \* controllerPriority: <<type1, type2, result>> of the last call
    hopped,        \* controllers as the range over it left it, before the completion
    batch,         \* the fetch batch in progress: its tasks, wg.Add count, cap(errChan)
    caller,        \* position of the function that runs the batch
    task,          \* position of each task of the batch
    errChan,       \* len(errChan)
    wg,            \* the counter of the WaitGroup
    access,        \* the answer GetNamespace gives for the namespace of the batch
    issued,        \* the API calls the tasks of the batch have issued
    wrote,         \* <<task, variable>>: shared variables the tasks have assigned
    readBy,        \* <<task, variable>>: shared variables the tasks have read
    proxy,         \* the proxy-status loop over the pods of one workload
    svc,           \* the operation of WorkloadService that returned last
    kialiCache,    \* the cache: nil or not, and how often a namespace was refreshed
    view,          \* the list fetchWorkloads returned for the contents now looked up
    podLog,        \* the call of getParsedLogs that returned last
    impl           \* the kialiCacheImpl: its stop channel and the goroutines using it

batchVars == <<batch, caller, task, errChan, wg, access, issued, wrote, readBy>>

coreVars == <<op, pc, args, calls, failed, fetched, controllers, todo, ws, err, patched,
              namespace, env, prio, hopped, view>>

restVars == <<podLog, impl>>

sideVars == <<proxy, svc, kialiCache, restVars>>

vars == <<op, pc, args, calls, failed, fetched, controllers, todo, ws, err, patched,
          namespace, env, prio, hopped, batch, caller, task, errChan, wg, access, issued, wrote,
          readBy, proxy, svc, kialiCache, view, podLog, impl>>

-----------------------------------------------------------------------------
(* Kinds *)

DeploymentType            == "Deployment"
ReplicaSetType            == "ReplicaSet"
ReplicationControllerType == "ReplicationController"
DeploymentConfigType      == "DeploymentConfig"
StatefulSetType           == "StatefulSet"
JobType                   == "Job"
CronJobType               == "CronJob"
PodType                   == "Pod"
DaemonSetType             == "DaemonSet"

\* a controller kind the code does not know (a third-party controller)
CustomType == "Rollout"

\* workloadTypes of updateWorkload, in its order
workloadTypes ==
    << DeploymentType, ReplicaSetType, ReplicationControllerType,
       DeploymentConfigType, StatefulSetType, JobType, CronJobType,
       PodType, DaemonSetType >>

ControllerKinds ==
    { DeploymentType, ReplicaSetType, ReplicationControllerType,
      DeploymentConfigType, StatefulSetType, JobType, CronJobType,
      DaemonSetType }

AllKinds == ControllerKinds \cup {PodType, CustomType}

-----------------------------------------------------------------------------
(* controllerPriority *)

controllerOrder ==
    [ k \in { DeploymentType, DeploymentConfigType, ReplicaSetType,
              ReplicationControllerType, StatefulSetType, JobType,
              DaemonSetType, PodType } |->
        CASE k = DeploymentType            -> 6
          [] k = DeploymentConfigType      -> 5
          [] k = ReplicaSetType            -> 4
          [] k = ReplicationControllerType -> 3
          [] k = StatefulSetType           -> 2
          [] k = JobType                   -> 1
          [] k = DaemonSetType             -> 0
          [] k = PodType                   -> -1 ]

\* w, e := controllerOrder[t]: a missing key reads as Go's zero value
orderOf(t) == IF t \in DOMAIN controllerOrder THEN controllerOrder[t] ELSE 0

\* controllerPriority with "w1 > w2" in place of "w1 >= w2"
controllerPriorityStrict(type1, type2) ==
    IF orderOf(type1) > orderOf(type2) THEN type1 ELSE type2

controllerPriority(type1, type2) ==
    IF orderOf(type1) >= orderOf(type2) THEN type1 ELSE type2

-----------------------------------------------------------------------------
(* The controllers map *)

NoControllers == [n \in {} |-> ""]

Put(m, k, v) == [x \in DOMAIN m \cup {k} |-> IF x = k THEN v ELSE m[x]]

Delete(m, k) == [x \in DOMAIN m \ {k} |-> m[x]]

\* if _, exist := controllers[name]; !exist {..} else if .. != kind {controllerPriority}
mergeController(m, name, kind) ==
    IF name \notin DOMAIN m THEN Put(m, name, kind)
    ELSE IF m[name] # kind THEN Put(m, name, controllerPriority(m[name], kind))
    ELSE m

RECURSIVE mergeOwnerReferences(_, _)
mergeOwnerReferences(m, refs) ==
    IF refs = <<>> THEN m
    ELSE LET ref == Head(refs) IN
         mergeOwnerReferences(
            IF ref.controller THEN mergeController(m, ref.name, ref.kind) ELSE m,
            Tail(refs))

\* findControllers without the branch of the pods that have no owner reference
RECURSIVE findControllersOwned(_, _)
findControllersOwned(m, pods) ==
    IF pods = <<>> THEN m
    ELSE findControllersOwned(mergeOwnerReferences(m, Head(pods).refs), Tail(pods))

\* findControllers when a pod none of whose references is a controller's counts
\* as a pod without controller
RECURSIVE findControllersUncontrolled(_, _)
findControllersUncontrolled(m, pods) ==
    IF pods = <<>> THEN m
    ELSE LET pod == Head(pods) IN
         findControllersUncontrolled(
            IF \E j \in 1..Len(pod.refs) : pod.refs[j].controller
            THEN mergeOwnerReferences(m, pod.refs)
            ELSE IF pod.name \notin DOMAIN m THEN Put(m, pod.name, PodType)
            ELSE m,
            Tail(pods))

\* Find controllers from pods
RECURSIVE findControllers(_, _)
findControllers(m, pods) ==
    IF pods = <<>> THEN m
    ELSE LET pod == Head(pods) IN
         findControllers(
            IF Len(pod.refs) # 0 THEN mergeOwnerReferences(m, pod.refs)
            ELSE IF pod.name \notin DOMAIN m THEN Put(m, pod.name, PodType)
            ELSE m,
            Tail(pods))

\* for i, x := range list { if x.Name == name { found; break } }: 0 when not found
indexOf(list, name) ==
    LET hits == {i \in 1..Len(list) : list[i].name = name} IN
    IF hits = {} THEN 0 ELSE CHOOSE i \in hits : \A j \in hits : i <= j

hasName(list, name) == indexOf(list, name) # 0

\* resolveParent without "delete(controllers, cname)"
resolveParentKeep(st, ref, cname, isJob, conjbs) ==
    IF ~ref.controller THEN st
    ELSE [ m     |-> mergeController(st.m, ref.name, ref.kind),
           fresh |-> IF ref.name \in DOMAIN st.m THEN st.fresh
                     ELSE st.fresh \cup {ref.name} ]

\* resolveParent without the test of cnExist: a job is deleted like any other child
resolveParentAlways(st, ref, cname, isJob, conjbs) ==
    IF ~ref.controller THEN st
    ELSE LET m == mergeController(st.m, ref.name, ref.kind) IN
         [ m     |-> Delete(m, cname),
           fresh |-> (IF ref.name \in DOMAIN st.m THEN st.fresh
                      ELSE st.fresh \cup {ref.name}) \ {cname} ]

\* One owner reference of a child controller: merge the parent, delete the child.
\* st.fresh: the keys created by this iteration of the range.
resolveParent(st, ref, cname, isJob, conjbs) ==
    IF ~ref.controller THEN st
    ELSE LET merged == [ m     |-> mergeController(st.m, ref.name, ref.kind),
                         fresh |-> IF ref.name \in DOMAIN st.m THEN st.fresh
                                   ELSE st.fresh \cup {ref.name} ]
             \* Jobs are special as deleting CronJob parent doesn't delete children
             cnExist == hasName(conjbs, ref.name)
         IN  IF isJob /\ ~cnExist THEN merged
             ELSE [ m |-> Delete(merged.m, cname), fresh |-> merged.fresh \ {cname} ]

RECURSIVE resolveParents(_, _, _, _, _)
resolveParents(st, refs, cname, isJob, conjbs) ==
    IF refs = <<>> THEN st
    ELSE resolveParents(resolveParent(st, Head(refs), cname, isJob, conjbs),
                        Tail(refs), cname, isJob, conjbs)

\* One iteration of "for cname, ctype := range controllers"
resolveController(m, cname, f) ==
    LET ctype == m[cname]
        list  == IF ctype = ReplicaSetType THEN f.repset
                 ELSE IF ctype = ReplicationControllerType THEN f.repcon
                 ELSE IF ctype = JobType THEN f.jbs
                 ELSE <<>>
        i     == indexOf(list, cname)
    IN  IF i = 0 THEN [m |-> m, fresh |-> {}]
        ELSE resolveParents([m |-> m, fresh |-> {}], list[i].refs, cname,
                            ctype = JobType, f.conjbs)

-----------------------------------------------------------------------------
(* Label selectors (k8s.io/apimachinery/pkg/labels), on sets of label keys *)

\* a string labels.Parse answers with an error
MalformedSelector == "("

\* labels.Parse(labelSelector) returns a selector, nil on an error
selectorParsed(labelSelector) == labelSelector \notin {"", MalformedSelector}

\* the keys a selector requires: none when there is no selector
selectorKeys(labelSelector) == IF selectorParsed(labelSelector) THEN {labelSelector} ELSE {}

\* selector.Matches(labels.Set(l))
selectorMatches(keys, lbls) == keys \subseteq lbls

\* the check when a string that does not parse is kept as a selector
selectorCheckStrict(labelSelector, lbls) ==
    IF labelSelector = "" THEN TRUE ELSE selectorMatches({labelSelector}, lbls)

\* selectorCheck := true, never narrowed by the selector
selectorCheckAlways(labelSelector, lbls) == TRUE

\* selectorCheck of the orphan completion: true when no selector was given
selectorCheck(labelSelector, lbls) ==
    IF selectorParsed(labelSelector)
    THEN selectorMatches(selectorKeys(labelSelector), lbls)
    ELSE TRUE

\* kubernetes.FilterPodsForSelector
FilterPodsForSelector(keys, pods) ==
    SelectSeq(pods, LAMBDA p : selectorMatches(keys, p.labels))

\* kubernetes.FilterPodsForController
FilterPodsForController(name, kind, pods) ==
    SelectSeq(pods, LAMBDA p :
        \E i \in 1..Len(p.refs) :
            p.refs[i].controller /\ p.refs[i].name = name /\ p.refs[i].kind = kind)

-----------------------------------------------------------------------------
(* Cornercase, check for controllers without pods, to show them as a workload *)

RECURSIVE addOrphans(_, _, _, _, _)
addOrphans(m, list, kind, unowned, labelSelector) ==
    IF list = <<>> THEN m
    ELSE LET c == Head(list) IN
         addOrphans(
            IF /\ c.name \notin DOMAIN m
               /\ (unowned => Len(c.refs) = 0)
               /\ selectorCheck(labelSelector, c.labels)
            THEN Put(m, c.name, kind) ELSE m,
            Tail(list), kind, unowned, labelSelector)

\* the completion without its last loop, the one over daeset
completeOrphansFive(m, f, labelSelector) ==
    LET m1 == addOrphans(m,  f.dep,    DeploymentType,            FALSE, labelSelector)
        m2 == addOrphans(m1, f.repset, ReplicaSetType,            TRUE,  labelSelector)
        m3 == addOrphans(m2, f.depcon, DeploymentConfigType,      FALSE, labelSelector)
        m4 == addOrphans(m3, f.repcon, ReplicationControllerType, TRUE,  labelSelector)
    IN  addOrphans(m4, f.fulset, StatefulSetType, FALSE, labelSelector)

\* the completion without "len(rs.OwnerReferences) == 0" in the replica-set loop
completeOrphansOwned(m, f, labelSelector) ==
    LET m1 == addOrphans(m,  f.dep,    DeploymentType,            FALSE, labelSelector)
        m2 == addOrphans(m1, f.repset, ReplicaSetType,            FALSE, labelSelector)
        m3 == addOrphans(m2, f.depcon, DeploymentConfigType,      FALSE, labelSelector)
        m4 == addOrphans(m3, f.repcon, ReplicationControllerType, TRUE,  labelSelector)
        m5 == addOrphans(m4, f.fulset, StatefulSetType,           FALSE, labelSelector)
    IN  addOrphans(m5, f.daeset, DaemonSetType, FALSE, labelSelector)

completeOrphans(m, f, labelSelector) ==
    LET m1 == addOrphans(m,  f.dep,    DeploymentType,            FALSE, labelSelector)
        m2 == addOrphans(m1, f.repset, ReplicaSetType,            TRUE,  labelSelector)
        m3 == addOrphans(m2, f.depcon, DeploymentConfigType,      FALSE, labelSelector)
        m4 == addOrphans(m3, f.repcon, ReplicationControllerType, TRUE,  labelSelector)
        m5 == addOrphans(m4, f.fulset, StatefulSetType,           FALSE, labelSelector)
    IN  addOrphans(m5, f.daeset, DaemonSetType, FALSE, labelSelector)

-----------------------------------------------------------------------------
(* Build workloads from controllers *)

podNames(pods) == [i \in 1..Len(pods) |-> pods[i].name]

slotOf(kind, f) ==
    CASE kind = DeploymentType            -> f.dep
      [] kind = ReplicaSetType            -> f.repset
      [] kind = ReplicationControllerType -> f.repcon
      [] kind = DeploymentConfigType      -> f.depcon
      [] kind = StatefulSetType           -> f.fulset
      [] kind = JobType                   -> f.jbs
      [] kind = CronJobType               -> f.conjbs
      [] kind = DaemonSetType             -> f.daeset
      [] OTHER                            -> <<>>

\* strings.HasPrefix, on the names of the model
HasPrefix(s, prefix) == s = prefix \/ (s = "a-1" /\ prefix = "a")

\* the default case with the pods linked by the type of the controller itself
customWorkloadOwnType(cname, ctype, f) ==
    LET cPods == FilterPodsForController(cname, ctype, f.pods)
        rs    == SelectSeq(f.repset, LAMBDA r : HasPrefix(r.name, cname))
    IN  [ name |-> cname, type |-> ctype, pods |-> podNames(cPods),
          parsed |-> IF rs # <<>> THEN [kind |-> ReplicaSetType, name |-> rs[1].name]
                     ELSE [kind |-> "Pods", name |-> cname] ]

\* default: ReplicaSet should be used to link Pods with a custom controller type.
\* The first replica-set whose name starts with cname is the one the workload
\* is parsed from (ParseReplicaSetParent), else the pods are (ParsePods).
customWorkload(cname, ctype, f) ==
    LET childType == IF ctype \notin DOMAIN controllerOrder
                     THEN ReplicaSetType ELSE ctype
        cPods     == FilterPodsForController(cname, childType, f.pods)
        rs        == SelectSeq(f.repset, LAMBDA r : HasPrefix(r.name, cname))
    IN  [ name |-> cname, type |-> ctype, pods |-> podNames(cPods),
          parsed |-> IF rs # <<>> THEN [kind |-> ReplicaSetType, name |-> rs[1].name]
                     ELSE [kind |-> "Pods", name |-> cname] ]

\* the switch when a custom controller without a replica-set counts as not found
buildWorkloadDropsCustom(cname, switchType, ctype, f) ==
    IF switchType \in ControllerKinds THEN
        LET list == slotOf(switchType, f)
            i    == indexOf(list, cname)
        IN  IF i = 0 THEN [cnFound |-> FALSE, w |-> <<>>]
            ELSE [ cnFound |-> TRUE,
                   w |-> [ name |-> list[i].name, type |-> switchType,
                           pods |-> podNames(FilterPodsForSelector(list[i].labels, f.pods)),
                           parsed |-> [kind |-> switchType, name |-> list[i].name] ] ]
    ELSE IF switchType = PodType THEN
        LET i == indexOf(f.pods, cname) IN
        IF i = 0 THEN [cnFound |-> FALSE, w |-> <<>>]
        ELSE [ cnFound |-> TRUE,
               w |-> [ name |-> f.pods[i].name, type |-> PodType,
                       pods |-> <<f.pods[i].name>>,
                       parsed |-> [kind |-> PodType, name |-> f.pods[i].name] ] ]
    ELSE IF \E j \in 1..Len(f.repset) : HasPrefix(f.repset[j].name, cname)
         THEN [cnFound |-> TRUE, w |-> customWorkload(cname, ctype, f)]
         ELSE [cnFound |-> FALSE, w |-> <<>>]

\* the switch when a controller whose object is missing is listed all the same
buildWorkloadKeepsMissing(cname, switchType, ctype, f) ==
    IF switchType \in ControllerKinds THEN
        LET list == slotOf(switchType, f)
            i    == indexOf(list, cname)
        IN  IF i = 0
            THEN [ cnFound |-> TRUE,
                   w |-> [ name |-> cname, type |-> switchType, pods |-> <<>>,
                           parsed |-> [kind |-> "", name |-> ""] ] ]
            ELSE [ cnFound |-> TRUE,
                   w |-> [ name |-> list[i].name, type |-> switchType,
                           pods |-> podNames(FilterPodsForSelector(list[i].labels, f.pods)),
                           parsed |-> [kind |-> switchType, name |-> list[i].name] ] ]
    ELSE IF switchType = PodType THEN
        LET i == indexOf(f.pods, cname) IN
        IF i = 0 THEN [cnFound |-> FALSE, w |-> <<>>]
        ELSE [ cnFound |-> TRUE,
               w |-> [ name |-> f.pods[i].name, type |-> PodType,
                       pods |-> <<f.pods[i].name>>,
                       parsed |-> [kind |-> PodType, name |-> f.pods[i].name] ] ]
    ELSE [cnFound |-> TRUE, w |-> customWorkload(cname, ctype, f)]

\* The switch on the controller type: switchType selects the case, ctype is
\* the type the pod resolution found (they differ only in fetchWorkload).
buildWorkload(cname, switchType, ctype, f) ==
    IF switchType \in ControllerKinds THEN
        LET list == slotOf(switchType, f)
            i    == indexOf(list, cname)
        IN  IF i = 0 THEN [cnFound |-> FALSE, w |-> <<>>]
            ELSE [ cnFound |-> TRUE,
                   w |-> [ name |-> list[i].name, type |-> switchType,
                           pods |-> podNames(FilterPodsForSelector(list[i].labels, f.pods)),
                           parsed |-> [kind |-> switchType, name |-> list[i].name] ] ]
    ELSE IF switchType = PodType THEN
        LET i == indexOf(f.pods, cname) IN
        IF i = 0 THEN [cnFound |-> FALSE, w |-> <<>>]
        ELSE [ cnFound |-> TRUE,
               w |-> [ name |-> f.pods[i].name, type |-> PodType,
                       pods |-> <<f.pods[i].name>>,
                       parsed |-> [kind |-> PodType, name |-> f.pods[i].name] ] ]
    ELSE [cnFound |-> TRUE, w |-> customWorkload(cname, ctype, f)]

\* sort.Strings on the names of the model
NamesSorted == <<"a", "a-1">>

\* the names in the order a range over the map may produce and nothing sorts
sortStringsSkipped(S) == SelectSeq(<<"a-1", "a">>, LAMBDA n : n \in S)

sortStrings(S) == SelectSeq(NamesSorted, LAMBDA n : n \in S)

RECURSIVE buildWorkloads(_, _, _)
buildWorkloads(cnames, m, f) ==
    IF cnames = <<>> THEN <<>>
    ELSE LET cname == Head(cnames)
             b     == buildWorkload(cname, m[cname], m[cname], f)
         IN  (IF b.cnFound THEN <<b.w>> ELSE <<>>) \o buildWorkloads(Tail(cnames), m, f)

-----------------------------------------------------------------------------
(* What the cluster may hold: the answers the API gives to the list calls *)

\* bounds of the model
MaxObjects == 3
MaxFailures == 1

Names == {"a", "a-1"}

\* kinds a pod's controller reference names
PodOwnerKinds == {ReplicaSetType, JobType, CustomType}

\* kinds a child controller's controller reference names
ParentKinds(kind) ==
    CASE kind = ReplicaSetType            -> {DeploymentType, CustomType}
      [] kind = ReplicationControllerType -> {DeploymentConfigType}
      [] kind = JobType                   -> {CronJobType, CustomType, ReplicaSetType}
      [] OTHER                            -> {}

\* the API server admits at most one owner reference with controller = true
OwnerRefs(kinds) ==
    {<<>>} \cup {<<[name |-> n, kind |-> k, controller |-> TRUE]>> : n \in Names, k \in kinds}

PodChoices ==
    [ name : Names, labels : {{"x"}},
      refs : OwnerRefs(PodOwnerKinds)
             \cup {<<[name |-> "a", kind |-> ReplicaSetType, controller |-> FALSE]>>} ]

\* pod-template labels: deployments come with and without the label of the pods
TemplateLabels(kind) == IF kind = DeploymentType THEN {{"x"}, {"y"}} ELSE {{"x"}}

ObjectChoices ==
    UNION { [ kind : {k}, name : Names, labels : TemplateLabels(k),
              refs : OwnerRefs(ParentKinds(k)) ] : k \in ControllerKinds }

\* lists of at most n pods, no two with the same name
RECURSIVE PodLists(_)
PodLists(n) ==
    IF n = 0 THEN {<<>>}
    ELSE LET shorter == PodLists(n - 1) IN
         shorter \cup
         { Append(ps, p) : ps \in {s \in shorter : Len(s) = n - 1},
                           p \in PodChoices } 

DistinctPods(ps) == \A i, j \in 1..Len(ps) : ps[i].name = ps[j].name => i = j

\* the (kind, name) pairs a controller object may carry, in a fixed order
KindSeq ==
    << DeploymentType, ReplicaSetType, ReplicationControllerType, DeploymentConfigType,
       StatefulSetType, JobType, CronJobType, DaemonSetType >>

SlotSeq ==
    [ i \in 1..(Len(KindSeq) * Len(NamesSorted)) |->
        [ kind |-> KindSeq[((i - 1) \div Len(NamesSorted)) + 1],
          name |-> NamesSorted[((i - 1) % Len(NamesSorted)) + 1] ] ]

\* sets of at most n controller objects, no two of the same kind and name
RECURSIVE ObjectSets(_, _)
ObjectSets(slots, n) ==
    IF slots = <<>> \/ n = 0 THEN {{}}
    ELSE ObjectSets(Tail(slots), n) \cup
         { S \cup {o} : S \in ObjectSets(Tail(slots), n - 1),
                        o \in { c \in ObjectChoices : /\ c.kind = Head(slots).kind
                                                      /\ c.name = Head(slots).name } }

\* a cluster holds at most MaxObjects pods and controller objects:
\* podLists[p] are the lists of p pods, objectSets[n] the sets of at most n objects
podLists == [ p \in 0..MaxObjects |-> {l \in PodLists(p) : Len(l) = p /\ DistinctPods(l)} ]

objectSets == [ n \in 0..MaxObjects |-> ObjectSets(SlotSeq, n) ]

\* the list of one kind, as the API returns it: in name order
listOf(kind, S) ==
    LET named == SelectSeq(NamesSorted, LAMBDA n : \E o \in S : o.kind = kind /\ o.name = n)
    IN  [ i \in 1..Len(named) |->
            LET o == CHOOSE o \in S : o.kind = kind /\ o.name = named[i]
            IN  [name |-> o.name, labels |-> o.labels, refs |-> o.refs] ]

NoFetch ==
    [ pods |-> <<>>, dep |-> <<>>, repset |-> <<>>, repcon |-> <<>>, depcon |-> <<>>,
      fulset |-> <<>>, jbs |-> <<>>, conjbs |-> <<>>, daeset |-> <<>> ]

-----------------------------------------------------------------------------
(* Errors *)

NoError       == [code |-> "nil", from |-> ""]
NamespaceError == [code |-> "Forbidden", from |-> "GetNamespace"]
ApiError(kind) == [code |-> "Forbidden", from |-> kind]
\* kubernetes.NewNotFound(workloadName, "Kiali", "Workload")
NotFound      == [code |-> "NotFound", from |-> "Workload"]

-----------------------------------------------------------------------------
(* Configuration read by the operations *)

EnvChoices ==
    [ openshift : {TRUE}, excluded : {{}}, cached : {FALSE} ]

isWorkloadIncluded(workload) == workload \notin env.excluded

\* kinds the cache serves when IsNamespaceCached(namespace)
CachedKinds == {PodType, DeploymentType, ReplicaSetType, StatefulSetType, DaemonSetType}

\* kinds fetchWorkload asks of the cache when IsNamespaceCached(namespace)
CachedGets == {PodType, DeploymentType, ReplicaSetType, StatefulSetType}

\* if IsNamespaceCached(namespace) { kialiCache.Get.. } else { layer.k8s.Get.. };
\* a call without that test goes to layer.k8s
clientOf(tested) == IF tested /\ env.cached THEN "cache" ELSE "k8s"

\* the calls of a batch: which client serves which kind
callsOf(kinds, cacheable) ==
    { [ via |-> clientOf(k \in cacheable), kind |-> k ] : k \in kinds }

FailureSets(kinds) == {F \in SUBSET kinds : Cardinality(F) <= MaxFailures}

NoArgs == [labelSelector |-> "", workloadName |-> "", workloadType |-> ""]

\* the namespace check placed after the calls of the operation
namespaceDeniedLate(kinds) ==
    /\ namespace' = "error"
    /\ pc' = "done"
    /\ err' = NamespaceError
    /\ calls' = callsOf(kinds, {})
    /\ UNCHANGED <<failed, fetched, controllers, todo, ws, patched>>

\* if _, err := layer.Namespace.GetNamespace(namespace); err != nil { return ..., err }
\* kinds: the kinds the operation goes on to call when the check passes
namespaceDenied(kinds) ==
    /\ namespace' = "error"
    /\ pc' = "done"
    /\ err' = NamespaceError
    /\ UNCHANGED <<calls, failed, fetched, controllers, todo, ws, patched>>

-----------------------------------------------------------------------------
(* fetchWorkloads *)

\* the kinds whose list call fetchWorkloads issues
listedKinds ==
    {PodType, DeploymentType, ReplicaSetType}
    \cup {k \in {ReplicationControllerType, StatefulSetType, CronJobType, JobType,
                 DaemonSetType} : isWorkloadIncluded(k)}
    \cup {k \in {DeploymentConfigType} : env.openshift /\ isWorkloadIncluded(k)}

\* every task sends its error on errChan, but the daemon-set task, which only logs it
listForwards(kind) == kind # DaemonSetType

\* the slots after the batch: a task that was not run or failed leaves its slot nil
listed(c, labelSelector, kinds) ==
    LET slot(kind) == IF kind \in kinds THEN listOf(kind, c.objs) ELSE <<>> IN
    [ pods   |-> IF PodType \in kinds
                 THEN FilterPodsForSelector(selectorKeys(labelSelector), c.pods)
                 ELSE <<>>,
      dep    |-> slot(DeploymentType),
      repset |-> slot(ReplicaSetType),
      repcon |-> slot(ReplicationControllerType),
      depcon |-> slot(DeploymentConfigType),
      fulset |-> slot(StatefulSetType),
      jbs    |-> slot(JobType),
      conjbs |-> slot(CronJobType),
      daeset |-> slot(DaemonSetType) ]

SelectorInputs == {"", "x", MalformedSelector}

\* lines 456-622: the namespace check, the fetch batch and the pod scan
FetchWorkloads(labelSelector) ==
    /\ pc = "idle"
    /\ op' = "fetchWorkloads"
    /\ args' = [NoArgs EXCEPT !.labelSelector = labelSelector]
    /\ UNCHANGED <<patched, env, prio, hopped, batchVars, sideVars, view>>
    /\ \/ namespaceDenied(listedKinds)
       \/ \E F \in FailureSets(listedKinds) :
            /\ namespace' = "ok"
            /\ calls' = callsOf(listedKinds, CachedKinds)
            /\ failed' = F
            /\ IF \E k \in F : listForwards(k)
               THEN \* if len(errChan) != 0 { err := <-errChan; return ws, err }
                    /\ pc' = "done"
                    /\ \E k \in F : listForwards(k) /\ err' = ApiError(k)
                    /\ UNCHANGED <<fetched, controllers, todo, ws>>
               ELSE \E p \in 0..MaxObjects : \E ps \in podLists[p] :
                    \E S \in objectSets[MaxObjects - p] :
                    LET c == [pods |-> ps, objs |-> S] IN
                    /\ fetched' = listed(c, labelSelector, listedKinds \ F)
                    /\ controllers' = findControllers(NoControllers, fetched'.pods)
                    /\ todo' = DOMAIN controllers'
                    /\ pc' = "hop"
                    /\ UNCHANGED <<ws, err>>

\* lines 627-717 (1225-1315 in fetchWorkload): one iteration of the range over
\* controllers. An entry created during the range may be produced or skipped.
ResolveStep ==
    /\ pc = "hop"
    /\ \E cname \in todo :
         LET st == resolveController(controllers, cname, fetched) IN
         /\ controllers' = st.m
         /\ \E produced \in SUBSET st.fresh :
              todo' = ((todo \ {cname}) \cap DOMAIN st.m) \cup produced
    /\ UNCHANGED <<op, pc, args, calls, failed, fetched, ws, err, patched, namespace, env, prio, hopped, batchVars, sideVars, view>>

\* lines 719-997: orphan completion, materialization, return
FinishFetchWorkloads ==
    /\ pc = "hop" /\ op = "fetchWorkloads" /\ todo = {}
    /\ hopped' = controllers
    /\ LET m == completeOrphans(controllers, fetched, args.labelSelector) IN
       /\ controllers' = m
       /\ ws' = buildWorkloads(sortStrings(DOMAIN m), m, fetched)
    /\ err' = NoError
    /\ pc' = "done"
    /\ UNCHANGED <<op, args, calls, failed, fetched, todo, patched, namespace, env, prio, batchVars, sideVars, view>>

-----------------------------------------------------------------------------
(* fetchWorkload *)

\* _, knownWorkloadType := controllerOrder[workloadType]
knownWorkloadType(workloadType) == workloadType \in DOMAIN controllerOrder

\* the kinds fetchWorkload fetches for a workload type
gotKinds(workloadType) ==
    {PodType}
    \cup {k \in {DeploymentType} : workloadType = "" \/ workloadType = k}
    \cup {k \in {ReplicaSetType} :
            ~(workloadType # "" /\ workloadType # k /\ knownWorkloadType(workloadType))}
    \cup {k \in {ReplicationControllerType, StatefulSetType, CronJobType, JobType,
                 DaemonSetType} :
            (workloadType = "" \/ workloadType = k) /\ isWorkloadIncluded(k)}
    \cup {k \in {DeploymentConfigType} :
            (workloadType = "" \/ workloadType = k) /\ env.openshift /\ isWorkloadIncluded(k)}

\* the kinds fetched with a get of the object named workloadName
SingleKinds == {DeploymentType, DeploymentConfigType, StatefulSetType, DaemonSetType}

\* the deployment-config, stateful-set and daemon-set tasks drop every error
\* (if err != nil { depcon = nil }); the other tasks send theirs on errChan
getForwards(kind) ==
    kind \notin {DeploymentConfigType, StatefulSetType, DaemonSetType}

\* a get answers the object of that name, or not-found, which leaves the slot nil
named(list, workloadName) == SelectSeq(list, LAMBDA o : o.name = workloadName)

got(c, workloadName, kinds) ==
    LET all == listed(c, "", kinds) IN
    [ all EXCEPT !.dep    = named(@, workloadName),
                 !.depcon = named(@, workloadName),
                 !.fulset = named(@, workloadName),
                 !.daeset = named(@, workloadName) ]

WorkloadTypeInputs == {"", DeploymentType, CronJobType, CustomType}

\* lines 1017-1220: the namespace check, the fetch batch and the pod scan
FetchWorkload(workloadName, workloadType) ==
    /\ pc = "idle"
    /\ op' = "fetchWorkload"
    /\ args' = [NoArgs EXCEPT !.workloadName = workloadName, !.workloadType = workloadType]
    /\ UNCHANGED <<patched, env, prio, hopped, batchVars, sideVars, view>>
    /\ \/ namespaceDenied(gotKinds(workloadType))
       \/ \E F \in FailureSets(gotKinds(workloadType)) :
            /\ namespace' = "ok"
            /\ calls' = callsOf(gotKinds(workloadType), CachedGets)
            /\ failed' = F
            /\ IF \E k \in F : getForwards(k)
               THEN \* if len(errChan) != 0 { err := <-errChan; return wl, err }
                    /\ pc' = "done"
                    /\ \E k \in F : getForwards(k) /\ err' = ApiError(k)
                    /\ UNCHANGED <<fetched, controllers, todo, ws>>
               ELSE \E p \in 0..MaxObjects : \E ps \in podLists[p] :
                    \E S \in objectSets[MaxObjects - p] :
                    LET c == [pods |-> ps, objs |-> S] IN
                    /\ fetched' = got(c, workloadName, gotKinds(workloadType) \ F)
                    /\ controllers' = findControllers(NoControllers, fetched'.pods)
                    /\ todo' = DOMAIN controllers'
                    /\ pc' = "hop"
                    /\ UNCHANGED <<ws, err>>

\* the switch on the type the pod resolution found, whatever the caller asked for
controllerTypeFound(workloadType, ctype) == ctype

\* Cornercase -> a controller is found but API is forcing a different workload type
controllerTypeOf(workloadType, ctype) ==
    IF workloadType # "" /\ ctype # workloadType THEN workloadType ELSE ctype

\* the return of the legacy revision when nothing was found: "return wl, nil"
fetchWorkloadReturnNil(cnFound, w) ==
    IF cnFound THEN [ws |-> <<w>>, err |-> NoError] ELSE [ws |-> <<>>, err |-> NoError]

\* lines 1528-1532: if cnFound { return wl, nil }; return wl, kubernetes.NewNotFound(..)
fetchWorkloadReturn(cnFound, w) ==
    IF cnFound THEN [ws |-> <<w>>, err |-> NoError] ELSE [ws |-> <<>>, err |-> NotFound]

\* lines 1317-1533: orphan completion, materialization of workloadName, return
FinishFetchWorkload ==
    /\ pc = "hop" /\ op = "fetchWorkload" /\ todo = {}
    /\ hopped' = controllers
    /\ LET m == completeOrphans(controllers, fetched, "")
           ctype == m[args.workloadName]
           controllerType == controllerTypeOf(args.workloadType, ctype)
           b == buildWorkload(args.workloadName, controllerType, ctype, fetched)
           r == IF args.workloadName \in DOMAIN m
                THEN fetchWorkloadReturn(b.cnFound, b.w)
                ELSE fetchWorkloadReturn(FALSE, <<>>)
       IN  /\ controllers' = m
           /\ ws' = r.ws
           /\ err' = r.err
    /\ pc' = "done"
    /\ UNCHANGED <<op, args, calls, failed, fetched, todo, patched, namespace, env, prio, batchVars, sideVars, view>>

-----------------------------------------------------------------------------
(* The detail of a workload looked up on the contents a list was made of *)

NoView == [listed |-> FALSE, ws |-> <<>>]

\* fetchWorkload(layer, namespace, workloadName, "") once fetchWorkloads has
\* returned its list, every call answering from the contents the list was made
\* of: lines 1017-1220 on those contents
DetailOfListed(workloadName) ==
    /\ pc = "done" /\ op = "fetchWorkloads"
    /\ namespace = "ok" /\ failed = {} /\ err = NoError
    /\ args.labelSelector = ""
    /\ ~view.listed
    /\ view' = [listed |-> TRUE, ws |-> ws]
    /\ op' = "fetchWorkload"
    /\ args' = [NoArgs EXCEPT !.workloadName = workloadName]
    /\ calls' = callsOf(gotKinds(""), CachedGets)
    /\ fetched' = [ fetched EXCEPT !.dep    = named(@, workloadName),
                                   !.depcon = named(@, workloadName),
                                   !.fulset = named(@, workloadName),
                                   !.daeset = named(@, workloadName) ]
    /\ controllers' = findControllers(NoControllers, fetched'.pods)
    /\ todo' = DOMAIN controllers'
    /\ pc' = "hop"
    /\ ws' = <<>>
    /\ hopped' = NoControllers
    /\ UNCHANGED <<failed, err, namespace, patched, env, prio, batchVars, sideVars>>

-----------------------------------------------------------------------------
(* The same lookup again, with the kind it found passed as workload type *)

\* the slots of a batch that fetched only the kinds given: a task that
\* returned before its call leaves its slot nil
fetchedOnly(f, kinds) ==
    LET slot(kind, list) == IF kind \in kinds THEN list ELSE <<>> IN
    [ pods   |-> slot(PodType, f.pods),
      dep    |-> slot(DeploymentType, f.dep),
      repset |-> slot(ReplicaSetType, f.repset),
      repcon |-> slot(ReplicationControllerType, f.repcon),
      depcon |-> slot(DeploymentConfigType, f.depcon),
      fulset |-> slot(StatefulSetType, f.fulset),
      jbs    |-> slot(JobType, f.jbs),
      conjbs |-> slot(CronJobType, f.conjbs),
      daeset |-> slot(DaemonSetType, f.daeset) ]

\* fetchWorkload(layer, namespace, workloadName, K) once fetchWorkload with no
\* workload type has returned a workload of kind K, every call answering from
\* the same contents: lines 1017-1220 on those contents
FetchWorkloadAgain ==
    /\ pc = "done" /\ op = "fetchWorkload"
    /\ namespace = "ok" /\ failed = {} /\ err = NoError
    /\ args.workloadType = ""
    /\ ~view.listed
    /\ Len(ws) = 1
    /\ ws[1].type \in ControllerKinds \cup {PodType}
    /\ view' = [listed |-> TRUE, ws |-> ws]
    /\ args' = [args EXCEPT !.workloadType = ws[1].type]
    /\ calls' = callsOf(gotKinds(ws[1].type), CachedGets)
    /\ fetched' = fetchedOnly(fetched, gotKinds(ws[1].type))
    /\ controllers' = findControllers(NoControllers, fetched'.pods)
    /\ todo' = DOMAIN controllers'
    /\ pc' = "hop"
    /\ ws' = <<>>
    /\ hopped' = NoControllers
    /\ UNCHANGED <<op, failed, err, namespace, patched, env, prio, batchVars, sideVars>>

-----------------------------------------------------------------------------
(* updateWorkload *)

\* bound: how many kinds answer a patch with something else than not-found
MaxAnswers == 2

\* workloadType is an optional parameter used to optimize the workload type fetch
patchTypes(workloadType) ==
    IF workloadType # "" /\ \E i \in 1..Len(workloadTypes) : workloadTypes[i] = workloadType
    THEN {workloadType}
    ELSE {workloadTypes[i] : i \in 1..Len(workloadTypes)}

\* the errors on errChan when the test of errors.IsNotFound is left out
patchErrorsAll(refused, missing) ==
    {ApiError(k) : k \in refused} \cup {[code |-> "NotFound", from |-> k] : k \in missing}

\* lines 1580-1585: the errors the patch tasks send on errChan. refused are the kinds
\* that answer an error other than not-found, missing the kinds that answer not-found.
patchErrors(refused, missing) == {ApiError(k) : k \in refused}

\* lines 1535-1596. Each included kind is patched; accepted are the kinds that take
\* the patch, and every kind neither accepted nor refused answers not-found.
UpdateWorkload(workloadName, workloadType) ==
    /\ pc = "idle"
    /\ op' = "updateWorkload"
    /\ args' = [NoArgs EXCEPT !.workloadName = workloadName, !.workloadType = workloadType]
    /\ UNCHANGED <<fetched, controllers, todo, ws, env, prio, hopped, batchVars, sideVars, view>>
    /\ LET tried == {k \in patchTypes(workloadType) : isWorkloadIncluded(k)} IN
       \/ namespaceDenied(tried)
       \/ \E accepted \in SUBSET tried : \E refused \in SUBSET (tried \ accepted) :
            LET sent == patchErrors(refused, tried \ (accepted \cup refused)) IN
            /\ Cardinality(accepted) + Cardinality(refused) <= MaxAnswers
            /\ namespace' = "ok"
            /\ calls' = callsOf(tried, {})
            /\ patched' = accepted
            /\ failed' = refused
            /\ pc' = "done"
            \* if len(errChan) != 0 { err := <-errChan; return err }
            /\ IF sent # {} THEN err' \in sent ELSE err' = NoError

-----------------------------------------------------------------------------
(* Fetch batches: the tasks started with "go func()", their WaitGroup and   *)
(* their error channel. A task is one goroutine: it makes its call, assigns *)
(* its result, sends the error if it has one to send, and ends with the     *)
(* deferred wg.Done().                                                      *)

\* the order in which fetchWorkloads and fetchWorkload start their tasks
FetchOrder ==
    << PodType, DeploymentType, ReplicaSetType, ReplicationControllerType,
       DeploymentConfigType, StatefulSetType, CronJobType, JobType, DaemonSetType >>

\* the variable of the enclosing function the task of a kind assigns
slotName(kind) ==
    CASE kind = PodType                   -> "pods"
      [] kind = DeploymentType            -> "dep"
      [] kind = ReplicaSetType            -> "repset"
      [] kind = ReplicationControllerType -> "repcon"
      [] kind = DeploymentConfigType      -> "depcon"
      [] kind = StatefulSetType           -> "fulset"
      [] kind = CronJobType               -> "conjbs"
      [] kind = JobType                   -> "jbs"
      [] kind = DaemonSetType             -> "daeset"

\* fetchWorkloads: wg.Add(9); errChan := make(chan error, 9)
fetchWorkloadsTasks ==
    [ i \in 1..Len(FetchOrder) |->
        LET k == FetchOrder[i] IN
        [ call   |-> k,
          slot   |-> slotName(k),
          sends  |-> listForwards(k),
          skips  |-> k \notin listedKinds,
          cache  |-> k \in CachedKinds,
          checks |-> FALSE,
          reads  |-> {"namespace", "layer", "errChan", "wg"}
                     \cup (IF k = PodType THEN {"labelSelector"} ELSE {}) ] ]

fetchWorkloadsBatch ==
    [ fn |-> "fetchWorkloads", arg |-> "", check |-> TRUE, add |-> 9, cap |-> 9,
      tasks |-> fetchWorkloadsTasks ]

\* fetchWorkload: wg.Add(9); errChan := make(chan error, 9); a task whose kind
\* is not the requested one returns before its call
fetchWorkloadTasks(workloadType) ==
    [ i \in 1..Len(FetchOrder) |->
        LET k == FetchOrder[i] IN
        [ call   |-> k,
          slot   |-> IF k = DaemonSetType THEN "ds" ELSE slotName(k),
          sends  |-> getForwards(k),
          skips  |-> k \notin gotKinds(workloadType),
          cache  |-> k \in CachedGets,
          checks |-> FALSE,
          reads  |-> {"namespace", "layer", "errChan", "wg"}
                     \cup (IF k # PodType THEN {"workloadType"} ELSE {})
                     \cup (IF k \in SingleKinds THEN {"workloadName"} ELSE {})
                     \cup (IF k = ReplicaSetType THEN {"knownWorkloadType"} ELSE {}) ] ]

fetchWorkloadBatch(workloadType) ==
    [ fn |-> "fetchWorkload", arg |-> workloadType, check |-> TRUE, add |-> 9, cap |-> 9,
      tasks |-> fetchWorkloadTasks(workloadType) ]

\* updateWorkload: wg.Add(len(workloadTypes)); errChan of that capacity
updateWorkloadTasks(workloadType) ==
    LET types == SelectSeq(workloadTypes, LAMBDA k : k \in patchTypes(workloadType)) IN
    [ i \in 1..Len(types) |->
        [ call   |-> types[i],
          slot   |-> "",
          sends  |-> TRUE,
          skips  |-> ~isWorkloadIncluded(types[i]),
          cache  |-> FALSE,
          checks |-> FALSE,
          reads  |-> {"namespace", "layer", "workloadName", "jsonPatch", "errChan", "wg"} ] ]

updateWorkloadBatch(workloadType) ==
    [ fn |-> "updateWorkload", arg |-> workloadType, check |-> TRUE,
      add |-> Len(updateWorkloadTasks(workloadType)),
      cap |-> Len(updateWorkloadTasks(workloadType)),
      tasks |-> updateWorkloadTasks(workloadType) ]

\* the Istio resources GetWorkloadList links to the workloads
workloadResources ==
    << "Gateways", "AuthorizationPolicies", "PeerAuthentications", "Sidecars",
       "RequestAuthentications", "EnvoyFilters" >>

\* the Istio resources GetAppList links to the applications
appResources == <<"VirtualServices", "DestinationRules">> \o workloadResources

\* the tasks when resourceObjects is declared once, before the loop
istioTasksShared(resources) ==
    [ i \in 1..Len(resources) |->
        [ call   |-> resources[i],
          slot   |-> "resourceObjects",
          sends  |-> TRUE,
          skips  |-> FALSE,
          cache  |-> TRUE,
          checks |-> FALSE,
          reads  |-> {"in", "wg"} ] ]

\* go func(namespace, resourceType string, dest *[]kubernetes.IstioObject, ...):
\* each task assigns the resourceObjects of its own iteration
istioTasks(resources) ==
    [ i \in 1..Len(resources) |->
        [ call   |-> resources[i],
          slot   |-> resources[i],
          sends  |-> TRUE,
          skips  |-> FALSE,
          cache  |-> TRUE,
          checks |-> FALSE,
          reads  |-> {"in", "wg"} ] ]

\* the first task of the two handlers runs a function that begins with GetNamespace
nestedTask(fn, slot, reads) ==
    [ call |-> fn, slot |-> slot, sends |-> TRUE, skips |-> FALSE, cache |-> FALSE,
      checks |-> TRUE, reads |-> reads ]

\* nFetches when the Istio tasks are left out of the count
GetWorkloadListAddsOne(linkIstioResources) == 1

\* nFetches := 1; if linkIstioResources { nFetches = 7 }
GetWorkloadListAdds(linkIstioResources) == IF linkIstioResources THEN 7 ELSE 1

GetWorkloadListBatch(linkIstioResources) ==
    [ fn |-> "GetWorkloadList", arg |-> linkIstioResources, check |-> FALSE,
      add |-> GetWorkloadListAdds(linkIstioResources),
      cap |-> GetWorkloadListAdds(linkIstioResources),
      tasks |-> <<nestedTask("fetchWorkloads", "ws", {"in", "namespace", "errChan", "wg"})>>
                \o (IF linkIstioResources THEN istioTasks(workloadResources) ELSE <<>>) ]

\* nFetches when it is 9 whether or not the Istio tasks are started
GetAppListAddsNine(linkIstioResources) == 9

\* nFetches := 1; if linkIstioResources { nFetches = 9 }
GetAppListAdds(linkIstioResources) == IF linkIstioResources THEN 9 ELSE 1

GetAppListBatch(linkIstioResources) ==
    [ fn |-> "GetAppList", arg |-> linkIstioResources, check |-> FALSE,
      add |-> GetAppListAdds(linkIstioResources),
      cap |-> GetAppListAdds(linkIstioResources),
      tasks |-> <<nestedTask("fetchNamespaceApps", "apps",
                             {"in", "namespace", "errChan", "wg"})>>
                \o (IF linkIstioResources THEN istioTasks(appResources) ELSE <<>>) ]

\* fetchNamespaceApps: wg.Add(2); errChan := make(chan error, 2)
fetchNamespaceAppsBatch ==
    [ fn |-> "fetchNamespaceApps", arg |-> "", check |-> TRUE, add |-> 2, cap |-> 2,
      tasks |-> << [ call |-> "GetServices", slot |-> "services", sends |-> TRUE,
                     skips |-> FALSE, cache |-> TRUE, checks |-> FALSE,
                     reads |-> {"namespace", "layer", "appName", "cfg", "services",
                                "errChan", "wg"} ],
                   nestedTask("fetchWorkloads", "ws",
                              {"layer", "namespace", "labelSelector", "errChan", "wg"}) >> ]

\* the legacy batch when the deployment task sends its error as the pods task does
fetchWorkloadLegacyBothSend ==
    [ fn |-> "fetchWorkload (legacy)", arg |-> "", check |-> FALSE, add |-> 2, cap |-> 1,
      tasks |-> << [ call |-> PodType, slot |-> "pods", sends |-> TRUE, skips |-> FALSE,
                     cache |-> FALSE, checks |-> FALSE,
                     reads |-> {"namespace", "k8s", "errChan", "wg"} ],
                   [ call |-> DeploymentType, slot |-> "dp", sends |-> TRUE,
                     skips |-> FALSE, cache |-> FALSE, checks |-> FALSE,
                     reads |-> {"namespace", "k8s", "workloadName", "dp", "errChan",
                                "wg"} ] >> ]

\* fetchWorkload of the legacy revision: wg.Add(2); errChan := make(chan error, 1);
\* the deployment task keeps its error to itself (if err != nil { dp = nil })
fetchWorkloadLegacyBatch ==
    [ fn |-> "fetchWorkload (legacy)", arg |-> "", check |-> FALSE, add |-> 2, cap |-> 1,
      tasks |-> << [ call |-> PodType, slot |-> "pods", sends |-> TRUE, skips |-> FALSE,
                     cache |-> FALSE, checks |-> FALSE,
                     reads |-> {"namespace", "k8s", "errChan", "wg"} ],
                   [ call |-> DeploymentType, slot |-> "dp", sends |-> FALSE,
                     skips |-> FALSE, cache |-> FALSE, checks |-> FALSE,
                     reads |-> {"namespace", "k8s", "workloadName", "dp", "wg"} ] >> ]

Batches ==
    {fetchWorkloadsBatch, fetchNamespaceAppsBatch, fetchWorkloadLegacyBatch}
    \cup {fetchWorkloadBatch(t) : t \in WorkloadTypeInputs}
    \cup {updateWorkloadBatch(t) : t \in WorkloadTypeInputs}
    \cup {GetWorkloadListBatch(l) : l \in BOOLEAN}
    \cup {GetAppListBatch(l) : l \in BOOLEAN}

NoBatch == [fn |-> "none", arg |-> "", check |-> FALSE, add |-> 0, cap |-> 0, tasks |-> <<>>]

\* the function is called: where it checks the namespace itself, a rejected
\* namespace makes it return before wg.Add
StartBatch(b, answer) ==
    /\ caller = "idle"
    /\ batch' = b
    /\ access' = answer
    /\ UNCHANGED <<errChan, issued, wrote, readBy>>
    /\ IF b.check /\ answer = "denied"
       THEN /\ caller' = "done"
            /\ UNCHANGED <<task, wg>>
       ELSE /\ caller' = "spawn"
            /\ wg' = b.add
            /\ task' = [i \in 1..Len(b.tasks) |-> "new"]
    /\ UNCHANGED <<coreVars, sideVars>>

\* the caller reaches the next "go func()"
Spawn ==
    /\ caller = "spawn"
    /\ LET i == CHOOSE i \in DOMAIN task :
                    task[i] = "new" /\ \A j \in 1..(i - 1) : task[j] # "new"
       IN  /\ task' = [task EXCEPT ![i] = "run"]
           /\ caller' = IF i = Len(task) THEN "wait" ELSE "spawn"
    /\ UNCHANGED <<batch, errChan, wg, access, issued, wrote, readBy>>
    /\ UNCHANGED <<coreVars, sideVars>>

\* a goroutine runs to its end, wg.Done() included; where its send finds
\* errChan full it stays blocked on "errChan <- err"
TaskRun(i, answer) ==
    /\ caller # "idle"
    /\ i \in DOMAIN task
    /\ task[i] = "run"
    /\ LET t      == batch.tasks[i]
           denied == t.checks /\ access = "denied"
       IN  IF t.skips
           THEN /\ answer = "ok"
                /\ task' = [task EXCEPT ![i] = "done"]
                /\ wg' = wg - 1
                /\ readBy' = readBy \cup {<<i, v>> : v \in t.reads \cap {"workloadType", "knownWorkloadType", "wg"}}
                /\ UNCHANGED <<errChan, issued, wrote>>
           ELSE /\ issued' = IF denied THEN issued
                           ELSE issued \cup {[via |-> clientOf(t.cache), call |-> t.call]}
                /\ wrote' = IF t.slot = "" THEN wrote ELSE wrote \cup {<<i, t.slot>>}
                /\ readBy' = readBy \cup {<<i, v>> : v \in t.reads}
                /\ IF (denied \/ answer = "error") /\ t.sends
                   THEN IF errChan < batch.cap
                        THEN /\ errChan' = errChan + 1
                             /\ task' = [task EXCEPT ![i] = "done"]
                             /\ wg' = wg - 1
                        ELSE /\ task' = [task EXCEPT ![i] = "blocked"]
                             /\ UNCHANGED <<errChan, wg>>
                   ELSE /\ task' = [task EXCEPT ![i] = "done"]
                        /\ wg' = wg - 1
                        /\ UNCHANGED errChan
    /\ UNCHANGED <<batch, caller, access>>
    /\ UNCHANGED <<coreVars, sideVars>>

\* wg.Wait() returns when the counter is zero
Wait ==
    /\ caller = "wait"
    /\ wg = 0
    /\ caller' = "read"
    /\ UNCHANGED <<batch, task, errChan, wg, access, issued, wrote, readBy>>
    /\ UNCHANGED <<coreVars, sideVars>>

\* if len(errChan) != 0 { err = <-errChan; return ..., err }; else the slots are read
Read ==
    /\ caller = "read"
    /\ errChan' = IF errChan # 0 THEN errChan - 1 ELSE errChan
    /\ caller' = "done"
    /\ UNCHANGED <<batch, task, wg, access, issued, wrote, readBy>>
    /\ UNCHANGED <<coreVars, sideVars>>

\* the function has returned
EndBatch ==
    /\ caller = "done"
    /\ \A i \in DOMAIN task : task[i] \in {"new", "done"}
    /\ batch' = NoBatch /\ caller' = "idle" /\ task' = <<>>
    /\ errChan' = 0 /\ wg' = 0 /\ access' = ""
    /\ issued' = {} /\ wrote' = {} /\ readBy' = {}
    /\ UNCHANGED <<coreVars, sideVars>>

-----------------------------------------------------------------------------
(* The proxy status of the pods of a workload: the loop that ends each       *)
(* iteration of the materialization in fetchWorkloads (981-994) and the      *)
(* materialization of fetchWorkload (1517-1530)                              *)

\* bound: the pods of the workload
MaxPods == 2

\* the pod has containers of the mesh: len(pod.IstioContainers) > 0
HasIstioSidecar(pod) == pod.istioContainers > 0

\* the ProxyStatus of a pod that has none
NoStatus == <<>>

\* the status of the model from the one of the client; nil stays nil
castProxyStatus(ps) == IF ps = "nil" THEN NoStatus ELSE <<ps>>

\* what GetPodProxyStatus(namespace, pod.Name) may answer: (ps, err)
ProxyAnswers ==
    { [ps |-> "Synced", err |-> FALSE], [ps |-> "Stale", err |-> FALSE],
      [ps |-> "nil", err |-> TRUE] }

\* the pods of a workload, before the loop
WorkloadPods ==
    { ps \in UNION { [1..n -> [name : Names, istioContainers : 0..1, proxyStatus : {NoStatus}]] :
                        n \in 0..MaxPods } :
        \A i, j \in DOMAIN ps : ps[i].name = ps[j].name => i = j }

NoProxy ==
    [ fn |-> "none", pc |-> "idle", given |-> <<>>, pods |-> <<>>, next |-> 0,
      cnFound |-> FALSE, lookups |-> {}, warned |-> {}, ws |-> <<>>, err |-> NoError ]

\* the loop where a failed lookup ends it with the error
proxyStatusStrict(p, answer) ==
    LET pod == p.pods[p.next] IN
    IF ~HasIstioSidecar(pod) THEN [p EXCEPT !.next = @ + 1]
    ELSE IF answer.err
         THEN [p EXCEPT !.lookups = @ \cup {pod.name}, !.pc = "done",
                        !.err = ApiError("ProxyStatus")]
         ELSE [p EXCEPT !.lookups = @ \cup {pod.name},
                        !.pods[p.next].proxyStatus = castProxyStatus(answer.ps),
                        !.next = @ + 1]

\* one iteration of "for _, pod := range w.Pods": the lookup is made for a pod
\* with a sidecar, its error is logged, and what it answered is assigned
proxyStatus(p, answer) ==
    LET pod == p.pods[p.next] IN
    IF ~HasIstioSidecar(pod) THEN [p EXCEPT !.next = @ + 1]
    ELSE [p EXCEPT !.lookups = @ \cup {pod.name},
                   !.warned = IF answer.err THEN @ \cup {pod.name} ELSE @,
                   !.pods[p.next].proxyStatus = castProxyStatus(answer.ps),
                   !.next = @ + 1]

\* the materialization has built w, with its pods, and set cnFound
AttachStart(fn, pods, cnFound) ==
    /\ proxy.pc = "idle"
    /\ proxy' = [NoProxy EXCEPT !.fn = fn, !.pc = "loop", !.given = pods, !.pods = pods,
                                !.next = 1, !.cnFound = cnFound]
    /\ UNCHANGED <<coreVars, batchVars, restVars, svc, kialiCache>>

AttachStep(answer) ==
    /\ proxy.pc = "loop"
    /\ proxy.next <= Len(proxy.pods)
    /\ proxy' = proxyStatus(proxy, answer)
    /\ UNCHANGED <<coreVars, batchVars, restVars, svc, kialiCache>>

\* fetchWorkloads: if cnFound { ws = append(ws, w) } ... return ws, nil
\* fetchWorkload:  if cnFound { return &w, nil } ... return wl, NewNotFound(..)
AttachReturn ==
    /\ proxy.pc = "loop"
    /\ proxy.next > Len(proxy.pods)
    /\ LET w == [name |-> "a", pods |-> proxy.pods]
           r == IF proxy.fn = "fetchWorkload"
                THEN fetchWorkloadReturn(proxy.cnFound, w)
                ELSE [ws |-> IF proxy.cnFound THEN <<w>> ELSE <<>>, err |-> NoError]
       IN  proxy' = [proxy EXCEPT !.pc = "done", !.ws = r.ws, !.err = r.err]
    /\ UNCHANGED <<coreVars, batchVars, restVars, svc, kialiCache>>

AttachEnd ==
    /\ proxy.pc = "done"
    /\ proxy' = NoProxy
    /\ UNCHANGED <<coreVars, batchVars, restVars, svc, kialiCache>>

-----------------------------------------------------------------------------
(* The operations of WorkloadService and the cache: GetWorkloadList (78-168), *)
(* GetWorkload (172-216), UpdateWorkload (218-232), GetPods (234-253). Each   *)
(* action is one call; what it asked of the cache is kept in svc.             *)

\* bound: the refreshes of the namespace that are counted
MaxRefreshes == 2

\* var kialiCache: nil until the cache is created
NoCache == [present |-> FALSE, refreshes |-> 0]

NoService ==
    [ fn |-> "none", before |-> NoCache, cacheCalls |-> {}, patched |-> FALSE,
      err |-> NoError ]

\* IsNamespaceCached(namespace): there is a cache and it holds the namespace
IsNamespaceCached == kialiCache.present /\ env.cached

cacheGet(what) == [verb |-> "get", what |-> what]

\* kialiCache.RefreshNamespace(namespace)
RefreshNamespace(cache) == [cache EXCEPT !.refreshes = @ + 1]

\* what fetchWorkloads asks of the cache
fetchWorkloadsGets ==
    IF IsNamespaceCached THEN {cacheGet(k) : k \in listedKinds \cap CachedKinds} ELSE {}

\* what fetchWorkload asks of the cache
fetchWorkloadGets(workloadType) ==
    IF IsNamespaceCached THEN {cacheGet(k) : k \in gotKinds(workloadType) \cap CachedGets}
    ELSE {}

\* the six tasks of 119-131
istioGets(linkIstioResources) ==
    IF linkIstioResources /\ IsNamespaceCached THEN {cacheGet("IstioObjects")} ELSE {}

\* the refresh when it does not look at the error of updateWorkload
refreshAlways(cache, patchErr) ==
    IF cache.present
    THEN [cache |-> RefreshNamespace(cache), calls |-> {[verb |-> "refresh", what |-> "namespace"]}]
    ELSE [cache |-> cache, calls |-> {}]

\* Cache is stopped after a Create/Update/Delete operation to force a refresh:
\* if kialiCache != nil && err == nil { kialiCache.RefreshNamespace(namespace) }
refreshAfterUpdate(cache, patchErr) ==
    IF cache.present /\ patchErr = NoError
    THEN [cache |-> RefreshNamespace(cache), calls |-> {[verb |-> "refresh", what |-> "namespace"]}]
    ELSE [cache |-> cache, calls |-> {}]

\* GetWorkload: GetNamespace, fetchWorkload, then the services when asked for
getWorkload(workloadType, includeServices, answer, failure) ==
    IF answer = "denied" THEN [calls |-> {}, err |-> NamespaceError]
    ELSE IF failure = "fetchWorkload"
         THEN [calls |-> fetchWorkloadGets(workloadType), err |-> NotFound]
    ELSE IF ~includeServices
         THEN [calls |-> fetchWorkloadGets(workloadType), err |-> NoError]
    ELSE [ calls |-> fetchWorkloadGets(workloadType)
                     \cup (IF IsNamespaceCached THEN {cacheGet("Services")} ELSE {}),
           err   |-> IF failure = "GetServices" THEN ApiError("Service") ELSE NoError ]

ServiceFailures == {"", "fetchWorkload", "GetServices"}

\* the workload types the operations of the service are called with
ServiceTypes == {"", DeploymentType}

\* the cache is created while no operation of the service is being answered
NewKialiCache ==
    /\ svc.fn = "none"
    /\ ~kialiCache.present
    /\ kialiCache' = [kialiCache EXCEPT !.present = TRUE]
    /\ UNCHANGED <<coreVars, batchVars, restVars, proxy, svc>>

GetWorkloadList(linkIstioResources, answer, failure) ==
    /\ svc.fn = "none"
    /\ svc' = [ fn |-> "GetWorkloadList", before |-> kialiCache, patched |-> FALSE,
                cacheCalls |-> (IF answer = "denied" THEN {} ELSE fetchWorkloadsGets)
                               \cup istioGets(linkIstioResources),
                err |-> IF answer = "denied" THEN NamespaceError
                        ELSE IF failure THEN ApiError(PodType) ELSE NoError ]
    /\ UNCHANGED <<coreVars, batchVars, restVars, proxy, kialiCache>>

GetWorkload(workloadType, includeServices, answer, failure) ==
    /\ svc.fn = "none"
    /\ LET r == getWorkload(workloadType, includeServices, answer, failure) IN
       svc' = [ fn |-> "GetWorkload", before |-> kialiCache, patched |-> FALSE,
                cacheCalls |-> r.calls, err |-> r.err ]
    /\ UNCHANGED <<coreVars, batchVars, restVars, proxy, kialiCache>>

\* updateWorkload, then the refresh, then GetWorkload
ServiceUpdateWorkload(workloadType, includeServices, patchErr, answer, failure) ==
    /\ svc.fn = "none"
    /\ kialiCache.refreshes < MaxRefreshes
    /\ LET f == refreshAfterUpdate(kialiCache, patchErr)
           r == getWorkload(workloadType, includeServices, answer, failure)
       IN  IF patchErr # NoError
           THEN /\ svc' = [ fn |-> "UpdateWorkload", before |-> kialiCache,
                            patched |-> FALSE, cacheCalls |-> f.calls, err |-> patchErr ]
                /\ kialiCache' = f.cache
           ELSE /\ svc' = [ fn |-> "UpdateWorkload", before |-> kialiCache,
                            patched |-> TRUE, cacheCalls |-> f.calls \cup r.calls,
                            err |-> r.err ]
                /\ kialiCache' = f.cache
    /\ UNCHANGED <<coreVars, batchVars, restVars, proxy>>

\* GetPods: the cache is asked only after GetNamespace let the user in
GetPods(answer, failure) ==
    /\ svc.fn = "none"
    /\ svc' = [ fn |-> "GetPods", before |-> kialiCache, patched |-> FALSE,
                cacheCalls |-> IF IsNamespaceCached /\ answer = "ok"
                               THEN {cacheGet(PodType)} ELSE {},
                err |-> IF IsNamespaceCached /\ answer = "denied" THEN NamespaceError
                        ELSE IF failure THEN ApiError(PodType) ELSE NoError ]
    /\ UNCHANGED <<coreVars, batchVars, restVars, proxy, kialiCache>>

ServiceReturn ==
    /\ svc.fn # "none"
    /\ svc' = NoService
    /\ UNCHANGED <<coreVars, batchVars, restVars, proxy, kialiCache>>

-----------------------------------------------------------------------------
(* UpdateWorkload (218-232) one statement at a time. svc.fn is the call that *)
(* returned last, svc.steps the calls made so far, in their order.           *)

\* the test that never sees an error: UpdateWorkload goes on after a failed patch
patchFailedIgnored(patchErr) == FALSE

\* if err != nil { return nil, err }
patchFailed(patchErr) == patchErr # NoError

\* err := updateWorkload(in.businessLayer, namespace, workloadName, workloadType, jsonPatch)
PatchWorkload(workloadType, includeServices, patchErr) ==
    /\ svc.fn = "none"
    /\ kialiCache.refreshes < MaxRefreshes
    /\ svc' = [ fn |-> "updateWorkload", before |-> kialiCache,
                patched |-> patchErr = NoError, cacheCalls |-> {}, err |-> patchErr,
                workloadType |-> workloadType, includeServices |-> includeServices,
                steps |-> <<"updateWorkload">> ]
    /\ UNCHANGED <<coreVars, batchVars, restVars, proxy, kialiCache>>

\* return nil, err
ReturnPatchError ==
    /\ svc.fn = "updateWorkload"
    /\ patchFailed(svc.err)
    /\ svc' = [svc EXCEPT !.fn = "UpdateWorkload"]
    /\ UNCHANGED <<coreVars, batchVars, restVars, proxy, kialiCache>>

\* if kialiCache != nil && err == nil { kialiCache.RefreshNamespace(namespace) }
RefreshAfterPatch ==
    /\ svc.fn = "updateWorkload"
    /\ ~patchFailed(svc.err)
    /\ LET f == refreshAfterUpdate(kialiCache, svc.err) IN
       /\ kialiCache' = f.cache
       /\ svc' = [ svc EXCEPT !.fn = "RefreshNamespace", !.cacheCalls = f.calls,
                               !.steps = IF f.calls # {}
                                         THEN Append(@, "RefreshNamespace") ELSE @ ]
    /\ UNCHANGED <<coreVars, batchVars, restVars, proxy>>

\* return in.GetWorkload(namespace, workloadName, workloadType, includeServices)
GetWorkloadAfterPatch(answer, failure) ==
    /\ svc.fn = "RefreshNamespace"
    /\ LET r == getWorkload(svc.workloadType, svc.includeServices, answer, failure) IN
       svc' = [ svc EXCEPT !.fn = "UpdateWorkload", !.cacheCalls = @ \cup r.calls,
                           !.err = r.err, !.steps = Append(@, "GetWorkload") ]
    /\ UNCHANGED <<coreVars, batchVars, restVars, proxy, kialiCache>>

-----------------------------------------------------------------------------
(* getParsedLogs (308-436): the time window of the log lines the API answered. *)
(* Times are in seconds; nil is NoTime. A line is its timestamp, or Unparsable *)
(* when time.Parse fails on it.                                                *)

\* bounds: the lines of the answer, their timestamps, the durations asked for
MaxLines == 3
MaxTime == 3
MaxDuration == 1

NoTime == -1

Unparsable == -2

\* entries = entries[len(entries)-int(*tailLines):]
lastLines(entries, tailLines) ==
    IF tailLines # NoTime /\ Len(entries) > tailLines
    THEN SubSeq(entries, Len(entries) - tailLines + 1, Len(entries))
    ELSE entries

\* for _, line := range lines (335-425): a line that does not parse is skipped;
\* the first line past the window ends the loop
RECURSIVE parseLines(_, _, _, _, _)
parseLines(lines, duration, startTime, endTime, entries) ==
    IF lines = <<>> THEN entries
    ELSE LET parsedTimestamp == Head(lines) IN
         IF parsedTimestamp = Unparsable
         THEN parseLines(Tail(lines), duration, startTime, endTime, entries)
         ELSE LET start == IF startTime = NoTime THEN parsedTimestamp ELSE startTime
                  \* if endTime == nil { end := parsedTimestamp.Add(*opts.Duration) }
                  end   == IF duration = NoTime THEN NoTime
                           ELSE IF endTime = NoTime THEN parsedTimestamp + duration
                           ELSE endTime
              IN  \* if parsedTimestamp.After(*endTime) { break }
                  IF duration # NoTime /\ parsedTimestamp > end THEN entries
                  ELSE parseLines(Tail(lines), duration, start, end,
                                  Append(entries, parsedTimestamp))

\* the entries getParsedLogs returns for the options and the lines of the answer
getParsedLogs(opts, lines) ==
    LET entries == parseLines(lines, opts.duration, opts.sinceTime, NoTime, <<>>) IN
    IF opts.duration # NoTime THEN lastLines(entries, opts.tailLines) ELSE entries

LogOptions ==
    [ sinceTime : {NoTime} \cup 0..1,
      duration  : {NoTime} \cup 0..MaxDuration,
      tailLines : {NoTime, 1} ]

\* what GetPodLogs may answer: lines in the order of their timestamps, none
\* before sinceTime, and at most tailLines of them when the API is given tailLines
LogLines(opts) ==
    LET stamps == (IF opts.sinceTime = NoTime THEN 0 ELSE opts.sinceTime)..MaxTime
        all    == UNION {[1..n -> stamps \cup {Unparsable}] : n \in 0..MaxLines}
    IN  { l \in all :
            /\ \A i, j \in DOMAIN l :
                  (i < j /\ l[i] # Unparsable /\ l[j] # Unparsable) => l[i] <= l[j]
            /\ (opts.duration = NoTime /\ opts.tailLines # NoTime)
                  => Len(l) <= opts.tailLines }

NoPodLog ==
    [ called |-> FALSE,
      opts |-> [sinceTime |-> NoTime, duration |-> NoTime, tailLines |-> NoTime],
      lines |-> <<>>, entries |-> <<>> ]

GetPodLogs(opts, lines) ==
    /\ ~podLog.called
    /\ podLog' = [ called |-> TRUE, opts |-> opts, lines |-> lines,
                   entries |-> getParsedLogs(opts, lines) ]
    /\ UNCHANGED <<coreVars, batchVars, proxy, svc, kialiCache, impl>>

PodLogsReturn ==
    /\ podLog.called
    /\ podLog' = NoPodLog
    /\ UNCHANGED <<coreVars, batchVars, proxy, svc, kialiCache, impl>>

-----------------------------------------------------------------------------
(* kialiCacheImpl (src/unnamed/part_002): Check, createCache and Stop on the  *)
(* stop channel. No lock guards the field c.stopChan: every read and write of *)
(* it is a step of its own, and the goroutines interleave freely. A panic     *)
(* ends the process: no goroutine takes a step after it.                      *)

\* bound: the goroutines that call Stop
MaxStops == 2

\* NewKialiCache: stopChan: make(chan struct{}). stopChan is the field ("chan"
\* or "nil"), closed the state of the channel it was made with; waitOn, runOn,
\* recvOn and sendOn are the values of the field the goroutines have read.
NewImpl ==
    [ stopChan |-> "chan", closed |-> FALSE, closes |-> 0, panic |-> "",
      check |-> "idle", waitOn |-> "", sendOn |-> "", synced |-> FALSE,
      monitor |-> "none", runOn |-> "", recvOn |-> "",
      stop |-> [i \in 1..MaxStops |-> "idle"] ]

alive == impl.panic = ""

\* Check: if !c.isCached(namespace) { return false }
CheckNotCached ==
    /\ alive /\ impl.check = "idle"
    /\ impl' = [impl EXCEPT !.check = "notCached"]
    /\ UNCHANGED <<coreVars, batchVars, proxy, svc, kialiCache, podLog>>

\* createCache, 70-82: the informers are made and "go func()" is started
CreateCache ==
    /\ alive /\ impl.check = "idle"
    /\ impl' = [impl EXCEPT !.check = "created", !.monitor = "start"]
    /\ UNCHANGED <<coreVars, batchVars, proxy, svc, kialiCache, podLog>>

\* go informer.Run(c.stopChan), for each informer of the namespace
InformerRun ==
    /\ alive /\ impl.monitor = "start"
    /\ impl' = [impl EXCEPT !.monitor = "run", !.runOn = impl.stopChan]
    /\ UNCHANGED <<coreVars, batchVars, proxy, svc, kialiCache, podLog>>

\* <- c.stopChan: the field is read, then the goroutine receives on its value
MonitorReceive ==
    /\ alive /\ impl.monitor = "run"
    /\ impl' = [impl EXCEPT !.monitor = "receive", !.recvOn = impl.stopChan]
    /\ UNCHANGED <<coreVars, batchVars, proxy, svc, kialiCache, podLog>>

\* a receive on a closed channel returns; log.Infof("... stopped")
MonitorStopped ==
    /\ alive /\ impl.monitor = "receive"
    /\ impl.recvOn = "chan" /\ impl.closed
    /\ impl' = [impl EXCEPT !.monitor = "stopped"]
    /\ UNCHANGED <<coreVars, batchVars, proxy, svc, kialiCache, podLog>>

\* the informers, running and not stopped, have synced (informer.HasSynced())
InformersSync ==
    /\ alive /\ ~impl.synced
    /\ impl.runOn # ""
    /\ ~(impl.runOn = "chan" /\ impl.closed)
    /\ impl' = [impl EXCEPT !.synced = TRUE]
    /\ UNCHANGED <<coreVars, batchVars, proxy, svc, kialiCache, podLog>>

\* cache.WaitForCacheSync(c.stopChan, isSynced): the field is read for the call
WaitForCacheSync ==
    /\ alive /\ impl.check = "created"
    /\ impl' = [impl EXCEPT !.check = "waiting", !.waitOn = impl.stopChan]
    /\ UNCHANGED <<coreVars, batchVars, proxy, svc, kialiCache, podLog>>

\* WaitForCacheSync answers true: log.Infof("... started"); return true
CheckSynced ==
    /\ alive /\ impl.check = "waiting"
    /\ impl.synced
    /\ impl' = [impl EXCEPT !.check = "true"]
    /\ UNCHANGED <<coreVars, batchVars, proxy, svc, kialiCache, podLog>>

\* WaitForCacheSync answers false, its stop channel being closed; then
\* "c.stopChan <- struct{}{}" reads the field for the send
CheckStopped ==
    /\ alive /\ impl.check = "waiting"
    /\ impl.waitOn = "chan" /\ impl.closed
    /\ impl' = [impl EXCEPT !.check = "send", !.sendOn = impl.stopChan]
    /\ UNCHANGED <<coreVars, batchVars, proxy, svc, kialiCache, podLog>>

\* the send: on a closed channel it panics; on an open one it is taken by the
\* goroutine that receives, and createCache returns false; on nil it never ends
CheckSend ==
    /\ alive /\ impl.check = "send"
    /\ impl.sendOn = "chan"
    /\ IF impl.closed
       THEN impl' = [impl EXCEPT !.check = "panic", !.panic = "send on closed channel"]
       ELSE /\ impl.monitor = "receive" /\ impl.recvOn = "chan"
            /\ impl' = [impl EXCEPT !.check = "false", !.monitor = "stopped"]
    /\ UNCHANGED <<coreVars, batchVars, proxy, svc, kialiCache, podLog>>

\* Stop: if c.stopChan != nil
StopTest(i) ==
    /\ alive /\ impl.stop[i] = "idle"
    /\ impl' = [impl EXCEPT !.stop[i] = IF impl.stopChan # "nil" THEN "close" ELSE "done"]
    /\ UNCHANGED <<coreVars, batchVars, proxy, svc, kialiCache, podLog>>

\* close(c.stopChan): the field is read again; closing nil or a closed channel panics
StopClose(i) ==
    /\ alive /\ impl.stop[i] = "close"
    /\ IF impl.stopChan = "nil"
       THEN impl' = [impl EXCEPT !.stop[i] = "panic", !.panic = "close of nil channel"]
       ELSE IF impl.closed
       THEN impl' = [impl EXCEPT !.stop[i] = "panic", !.panic = "close of closed channel"]
       ELSE impl' = [impl EXCEPT !.stop[i] = "assign", !.closed = TRUE, !.closes = @ + 1]
    /\ UNCHANGED <<coreVars, batchVars, proxy, svc, kialiCache, podLog>>

\* c.stopChan = nil
StopAssign(i) ==
    /\ alive /\ impl.stop[i] = "assign"
    /\ impl' = [impl EXCEPT !.stop[i] = "done", !.stopChan = "nil"]
    /\ UNCHANGED <<coreVars, batchVars, proxy, svc, kialiCache, podLog>>

-----------------------------------------------------------------------------
\* the caller takes the result; the next operation starts from scratch
Return ==
    /\ pc = "done"
    /\ op' = "none" /\ pc' = "idle"
    /\ args' = NoArgs
    /\ calls' = {} /\ failed' = {} /\ fetched' = NoFetch
    /\ controllers' = NoControllers /\ todo' = {} /\ ws' = <<>> /\ err' = NoError
    /\ patched' = {} /\ namespace' = "" /\ hopped' = NoControllers
    /\ view' = NoView
    /\ UNCHANGED <<env, prio, batchVars, sideVars>>

NoPriority == <<"", "", "">>

\* nothing is in progress; E: the configurations the process may run under
InitIn(E) ==
    /\ op = "none" /\ pc = "idle"
    /\ args = NoArgs
    /\ calls = {} /\ failed = {} /\ fetched = NoFetch
    /\ controllers = NoControllers /\ todo = {} /\ ws = <<>> /\ err = NoError
    /\ patched = {} /\ namespace = ""
    /\ env \in E
    /\ prio = NoPriority
    /\ hopped = NoControllers
    /\ batch = NoBatch /\ caller = "idle" /\ task = <<>>
    /\ errChan = 0 /\ wg = 0 /\ access = ""
    /\ issued = {} /\ wrote = {} /\ readBy = {}
    /\ proxy = NoProxy
    /\ svc = NoService
    /\ kialiCache = NoCache
    /\ view = NoView
    /\ podLog = NoPodLog
    /\ impl = NewImpl

Init == InitIn(EnvChoices)

Next ==
    \/ \E s \in SelectorInputs : FetchWorkloads(s)
    \/ \E n \in Names, t \in WorkloadTypeInputs : FetchWorkload(n, t)
    \/ \E n \in Names, t \in WorkloadTypeInputs : UpdateWorkload(n, t)
    \/ ResolveStep
    \/ FinishFetchWorkloads
    \/ FinishFetchWorkload
    \/ Return

Spec == Init /\ [][Next]_vars

-----------------------------------------------------------------------------
(* controllerPriority on its own *)

\* a second kind the rank table does not hold
OtherCustomType == "Node"

PriorityInputs == AllKinds \cup {OtherCustomType}

Priority(type1, type2) ==
    /\ prio' = <<type1, type2, controllerPriority(type1, type2)>>
    /\ UNCHANGED <<op, pc, args, calls, failed, fetched, controllers, todo, ws, err, patched,
                   namespace, env, hopped, batchVars, sideVars, view>>

NextPriority == \E type1 \in PriorityInputs, type2 \in PriorityInputs : Priority(type1, type2)

SpecPriority == Init /\ [][NextPriority]_vars

-----------------------------------------------------------------------------
(* The fetch batches on their own, one goroutine step at a time *)

AccessAnswers == {"ok", "denied"}

CallAnswers == {"ok", "notfound", "error"}

NextBatch ==
    \/ \E b \in Batches, answer \in AccessAnswers : StartBatch(b, answer)
    \/ Spawn
    \/ \E i \in 1..Len(FetchOrder), answer \in CallAnswers : TaskRun(i, answer)
    \/ Wait
    \/ Read
    \/ EndBatch

SpecBatch == Init /\ [][NextBatch]_vars

-----------------------------------------------------------------------------
(* The fetch batches of the three operations under every configuration *)

\* the platform, the excluded kinds of the configuration, the namespace cached or not
ConfigChoices ==
    [ openshift : BOOLEAN, excluded : {{}, {DeploymentType, JobType}}, cached : BOOLEAN ]

\* the workload types the single-workload operations are called with
ConfigTypes == {"", DeploymentType}

ConfigBatches ==
    {fetchWorkloadsBatch}
    \cup {fetchWorkloadBatch(t) : t \in ConfigTypes}
    \cup {updateWorkloadBatch(t) : t \in ConfigTypes}

NextConfig ==
    \/ \E b \in ConfigBatches, answer \in AccessAnswers : StartBatch(b, answer)
    \/ Spawn
    \/ \E i \in 1..Len(FetchOrder), answer \in CallAnswers : TaskRun(i, answer)
    \/ Wait
    \/ Read
    \/ EndBatch

SpecConfig == InitIn(ConfigChoices) /\ [][NextConfig]_vars

-----------------------------------------------------------------------------
(* The list of a namespace, then the detail of a name on the same contents *)

NextViews ==
    \/ FetchWorkloads("")
    \/ \E n \in Names : DetailOfListed(n)
    \/ ResolveStep
    \/ FinishFetchWorkloads
    \/ FinishFetchWorkload
    \/ Return

SpecViews == Init /\ [][NextViews]_vars

-----------------------------------------------------------------------------
(* A workload looked up with no workload type, then with the kind found *)

NextHint ==
    \/ \E n \in Names : FetchWorkload(n, "")
    \/ FetchWorkloadAgain
    \/ ResolveStep
    \/ FinishFetchWorkload
    \/ Return

SpecHint == Init /\ [][NextHint]_vars

-----------------------------------------------------------------------------
(* The operations of the service, for a namespace that is cached or not *)

ServiceChoices == [ openshift : {TRUE}, excluded : {{}}, cached : BOOLEAN ]

PatchAnswers == {NoError, ApiError(DeploymentType)}

NextService ==
    \/ NewKialiCache
    \/ \E l \in BOOLEAN, answer \in AccessAnswers, failure \in BOOLEAN :
          GetWorkloadList(l, answer, failure)
    \/ \E t \in ServiceTypes, i \in BOOLEAN, answer \in AccessAnswers,
          failure \in ServiceFailures : GetWorkload(t, i, answer, failure)
    \/ \E t \in ServiceTypes, i \in BOOLEAN, patchErr \in PatchAnswers,
          answer \in AccessAnswers, failure \in ServiceFailures :
          ServiceUpdateWorkload(t, i, patchErr, answer, failure)
    \/ \E answer \in AccessAnswers, failure \in BOOLEAN : GetPods(answer, failure)
    \/ ServiceReturn

SpecService == InitIn(ServiceChoices) /\ [][NextService]_vars

-----------------------------------------------------------------------------
(* UpdateWorkload on its own, one statement at a time *)

NextUpdate ==
    \/ NewKialiCache
    \/ \E t \in ServiceTypes, i \in BOOLEAN, patchErr \in PatchAnswers :
          PatchWorkload(t, i, patchErr)
    \/ ReturnPatchError
    \/ RefreshAfterPatch
    \/ \E answer \in AccessAnswers, failure \in ServiceFailures :
          GetWorkloadAfterPatch(answer, failure)
    \/ ServiceReturn

SpecUpdate == InitIn(ServiceChoices) /\ [][NextUpdate]_vars

-----------------------------------------------------------------------------
(* getParsedLogs on its own *)

NextLogs ==
    \/ \E opts \in LogOptions : \E lines \in LogLines(opts) : GetPodLogs(opts, lines)
    \/ PodLogsReturn

SpecLogs == Init /\ [][NextLogs]_vars

-----------------------------------------------------------------------------
(* The stop channel of the cache: one Check and the Stop calls, interleaved *)

NextCache ==
    \/ CheckNotCached
    \/ CreateCache
    \/ InformerRun
    \/ MonitorReceive
    \/ MonitorStopped
    \/ InformersSync
    \/ WaitForCacheSync
    \/ CheckSynced
    \/ CheckStopped
    \/ CheckSend
    \/ \E i \in 1..MaxStops : StopTest(i)
    \/ \E i \in 1..MaxStops : StopClose(i)
    \/ \E i \in 1..MaxStops : StopAssign(i)

SpecCache == Init /\ [][NextCache]_vars

-----------------------------------------------------------------------------
(* The proxy-status loop on its own *)

NextProxy ==
    \/ \E fn \in {"fetchWorkloads", "fetchWorkload"}, pods \in WorkloadPods,
          cnFound \in BOOLEAN : AttachStart(fn, pods, cnFound)
    \/ \E answer \in ProxyAnswers : AttachStep(answer)
    \/ AttachReturn
    \/ AttachEnd

SpecProxy == Init /\ [][NextProxy]_vars

-----------------------------------------------------------------------------
(* Properties of controllerPriority, under SpecPriority *)

\* the pair of the last call and what it returned
called == prio # NoPriority
type1Of == prio[1]
type2Of == prio[2]
winnerOf == prio[3]

\* the table's kinds
ranked(kind) == kind \in DOMAIN controllerOrder

C8_UnrankedLoses ==
    called =>
        /\ (ranked(type1Of) /\ ~ranked(type2Of)) => winnerOf = type1Of
        /\ (~ranked(type1Of) /\ ranked(type2Of)) => winnerOf = type2Of

-----------------------------------------------------------------------------
(* Properties of the three operations, under Spec *)

returned(o) == pc = "done" /\ op = o

Operations == {"fetchWorkloads", "fetchWorkload", "updateWorkload"}

\* C10: in each of the three operations, when GetNamespace answers an error the
\* operation returns that error and has issued no list, get or patch call; a call
\* is issued only after GetNamespace answered without error.
C10_NamespaceFirst ==
    /\ namespace = "error" =>
          /\ op \in Operations /\ pc = "done"
          /\ err = NamespaceError
          /\ calls = {} /\ patched = {} /\ fetched = NoFetch /\ ws = <<>>
    /\ calls # {} => namespace = "ok"

C10_Denied ==
    /\ returned("fetchWorkload")
    /\ namespace = "error"
    /\ err = NamespaceError

\* C4: when the list call of any kind fails, fetchWorkloads returns a non-nil
\* error and an empty workload list.
C4_ListFailureAborts ==
    (returned("fetchWorkloads") /\ failed # {}) => (err # NoError /\ ws = <<>>)

\* C5: when a fetch of fetchWorkload fails with an error other than not-found,
\* fetchWorkload returns that error, not NotFound and not success.
C5_GetFailureReturned ==
    (returned("fetchWorkload") /\ failed # {}) => err \in {ApiError(k) : k \in failed}

-----------------------------------------------------------------------------
(* Properties of the resolution, under Spec *)

\* fetchWorkload returned after its batch and its resolution ran
resolved ==
    /\ returned("fetchWorkload")
    /\ namespace = "ok"
    /\ \A k \in failed : ~getForwards(k)

\* fetchWorkloads returned after its batch and its resolution ran
listedAll ==
    /\ returned("fetchWorkloads")
    /\ namespace = "ok"
    /\ \A k \in failed : ~listForwards(k)

requested == args.workloadName

\* the type the materialization of fetchWorkload switches on
requestedType ==
    IF args.workloadType # "" /\ controllers[requested] # args.workloadType
    THEN args.workloadType ELSE controllers[requested]

\* the object of a controller of the index is among the fetched objects
objectFound(name, kind) ==
    CASE kind \in ControllerKinds -> hasName(slotOf(kind, fetched), name)
      [] kind = PodType           -> hasName(fetched.pods, name)
      [] OTHER                    -> TRUE

unresolvedName ==
    \/ requested \notin DOMAIN controllers
    \/ ~objectFound(requested, requestedType)

\* C6: when fetchWorkload's name resolves to no controller and no pod (the name is
\* absent from the index, or the object of its controller is not found), the
\* operation returns the NotFound error with an empty workload: never a nil error
\* with an empty workload, never another error.
C6_UnresolvedIsNotFound ==
    /\ (resolved /\ unresolvedName) => (err = NotFound /\ ws = <<>>)
    /\ (returned("fetchWorkload") /\ err = NoError) => ws # <<>>

\* the name is in the index but the object of its controller was not fetched
C6_ControllerObjectMissing ==
    /\ resolved
    /\ requested \in DOMAIN controllers
    /\ ~objectFound(requested, requestedType)
    /\ err = NotFound

\* the index after the pod scan
scan == findControllers(NoControllers, fetched.pods)

scannedAs(name, kind) == name \in DOMAIN scan /\ scan[name] = kind

\* the controller-owning references of an object, and of the objects of a list
controllerRefsOf(o) == { o.refs[j] : j \in {k \in 1..Len(o.refs) : o.refs[k].controller} }

controllerRefs(list) == UNION { controllerRefsOf(list[i]) : i \in 1..Len(list) }

\* the controller-owning references on the fetched pods
podRefs == controllerRefs(fetched.pods)

\* the controller-owning references on the fetched replica-sets,
\* replication-controllers and jobs
parentRefs ==
    controllerRefs(fetched.repset) \cup controllerRefs(fetched.repcon)
        \cup controllerRefs(fetched.jbs)

\* the names under which orphan completion adds a controller to an index that
\* does not hold them
orphanNames ==
    DOMAIN completeOrphans(NoControllers, fetched,
                           IF op = "fetchWorkloads" THEN args.labelSelector ELSE "")

workloadNamed(name) == \E i \in 1..Len(ws) : ws[i].name = name

workloadOf(name, kind) == \E i \in 1..Len(ws) : ws[i].name = name /\ ws[i].type = kind

\* C1 as stated: for every fetched replica-set with a controller-owning reference
\* to a deployment, the output of fetchWorkloads has no workload named after the
\* replica-set and has a workload of kind Deployment named after the deployment.
C1_ReplicaSetCollapses ==
    listedAll =>
        \A i \in 1..Len(fetched.repset) :
            \A r \in controllerRefsOf(fetched.repset[i]) :
                r.kind = DeploymentType =>
                    /\ ~workloadNamed(fetched.repset[i].name)
                    /\ workloadOf(r.name, DeploymentType)

\* the replica-set rs reaches the range as a ReplicaSet, its deployment is fetched,
\* and nothing else brings its name into the index
collapsible(rs, r) ==
    /\ scannedAs(rs.name, ReplicaSetType)
    /\ hasName(fetched.dep, r.name)
    /\ rs.name \notin orphanNames
    /\ \A q \in parentRefs : q.name # rs.name

\* C1: for every fetched replica-set N with a controller-owning reference to a
\* deployment D, if the pod scan enters N as a ReplicaSet, D is among the fetched
\* deployments, orphan completion adds no controller named N and no owner
\* reference of a fetched controller names N, then the output of fetchWorkloads
\* has no workload named N and has a workload of kind Deployment named D.
C1_ScannedReplicaSetCollapses ==
    listedAll =>
        \A i \in 1..Len(fetched.repset) :
            \A r \in controllerRefsOf(fetched.repset[i]) :
                (r.kind = DeploymentType /\ collapsible(fetched.repset[i], r)) =>
                    /\ ~workloadNamed(fetched.repset[i].name)
                    /\ workloadOf(r.name, DeploymentType)

C1_Collapsed ==
    /\ listedAll
    /\ \E i \in 1..Len(fetched.repset) :
         \E r \in controllerRefsOf(fetched.repset[i]) :
            /\ r.kind = DeploymentType
            /\ collapsible(fetched.repset[i], r)
            /\ ~workloadNamed(fetched.repset[i].name)
            /\ workloadOf(r.name, DeploymentType)

\* what "appears as a workload" is in each operation
appears(name, kind) ==
    IF op = "fetchWorkloads" THEN workloadOf(name, kind)
    ELSE requested = name => (err = NoError /\ workloadOf(name, kind))

appearsNot(name) ==
    IF op = "fetchWorkloads" THEN ~workloadNamed(name)
    ELSE requested = name => (err = NotFound /\ ws = <<>>)

jobOutcome(job, r) ==
    IF hasName(fetched.conjbs, r.name)
    THEN /\ job.name \notin DOMAIN controllers
         /\ appearsNot(job.name)
         /\ appears(r.name, CronJobType)
    ELSE /\ job.name \in DOMAIN controllers
         /\ appears(job.name, JobType)

\* C2 as stated: in both operations, for a fetched job with a controller-owning
\* reference to a cron-job: if that cron-job is fetched the job is removed from the
\* index and only the cron-job appears as a workload; otherwise the job stays in
\* the index and appears as a workload of kind Job.
C2_JobFollowsCronJob ==
    (listedAll \/ resolved) =>
        \A i \in 1..Len(fetched.jbs) :
            \A r \in controllerRefsOf(fetched.jbs[i]) :
                r.kind = CronJobType => jobOutcome(fetched.jbs[i], r)

\* the job reaches the range as a Job and nothing else brings its name into the
\* index; when its cron-job is fetched, no reference names the cron-job with
\* another kind
plainJob(job, r) ==
    /\ scannedAs(job.name, JobType)
    /\ job.name \notin orphanNames
    /\ \A q \in parentRefs : q.name # job.name
    /\ hasName(fetched.conjbs, r.name) =>
          \A q \in podRefs \cup parentRefs : q.name = r.name => q.kind = CronJobType

\* C2: in both operations, for a fetched job J with a controller-owning reference
\* to a cron-job C, if the pod scan enters J as a Job, orphan completion adds no
\* controller named J, no owner reference of a fetched controller names J and,
\* when C is fetched, no controller-owning reference names C with another kind
\* than CronJob: if C is fetched J is removed from the index and only the cron-job
\* appears as a workload; otherwise J stays in the index and appears as a workload
\* of kind Job.
C2_ScannedJobFollowsCronJob ==
    (listedAll \/ resolved) =>
        \A i \in 1..Len(fetched.jbs) :
            \A r \in controllerRefsOf(fetched.jbs[i]) :
                (r.kind = CronJobType /\ plainJob(fetched.jbs[i], r)) =>
                    jobOutcome(fetched.jbs[i], r)

\* a job whose cron-job is not fetched, listed as a Job
C2_JobKept ==
    /\ listedAll
    /\ \E i \in 1..Len(fetched.jbs) :
         \E r \in controllerRefsOf(fetched.jbs[i]) :
            /\ r.kind = CronJobType
            /\ plainJob(fetched.jbs[i], r)
            /\ ~hasName(fetched.conjbs, r.name)
            /\ workloadOf(fetched.jbs[i].name, JobType)

podWorkloads(pod) ==
    { i \in 1..Len(ws) : ws[i].name = pod.name /\ ws[i].type = PodType }

onePodWorkload(pod) ==
    /\ Cardinality(podWorkloads(pod)) = 1
    /\ \A i \in podWorkloads(pod) : ws[i].pods = <<pod.name>>

\* C3 as stated: for every fetched pod without owner references, the output of
\* fetchWorkloads has exactly one workload of kind Pod named after the pod, and
\* that workload holds exactly that pod.
C3_OwnerlessPodListed ==
    listedAll =>
        \A i \in 1..Len(fetched.pods) :
            Len(fetched.pods[i].refs) = 0 => onePodWorkload(fetched.pods[i])

\* C3: for every fetched pod without owner references whose name no
\* controller-owning reference of a fetched pod, replica-set,
\* replication-controller or job names, the output of fetchWorkloads has exactly
\* one workload of kind Pod named after the pod, and that workload holds exactly
\* that pod.
C3_UnnamedOwnerlessPodListed ==
    listedAll =>
        \A i \in 1..Len(fetched.pods) :
            ( /\ Len(fetched.pods[i].refs) = 0
              /\ \A q \in podRefs \cup parentRefs : q.name # fetched.pods[i].name )
            => onePodWorkload(fetched.pods[i])

\* an ownerless pod listed next to a controller of its own name
C3_PodBesideNamesake ==
    /\ listedAll
    /\ \E i \in 1..Len(fetched.pods) :
         /\ Len(fetched.pods[i].refs) = 0
         /\ \A q \in podRefs \cup parentRefs : q.name # fetched.pods[i].name
         /\ hasName(fetched.dep, fetched.pods[i].name)
         /\ onePodWorkload(fetched.pods[i])

-----------------------------------------------------------------------------
(* Properties of the orphan completion, under Spec *)

\* the fetched controllers of some kinds
fetchedObjects(kinds) ==
    UNION { { [ kind |-> k, name |-> slotOf(k, fetched)[i].name,
                labels |-> slotOf(k, fetched)[i].labels,
                refs |-> slotOf(k, fetched)[i].refs ] :
              i \in 1..Len(slotOf(k, fetched)) } : k \in kinds }

\* the kinds whose lists the completion goes through, in its order
CompletedKinds ==
    << DeploymentType, ReplicaSetType, DeploymentConfigType, ReplicationControllerType,
       StatefulSetType, DaemonSetType >>

completedKinds == { CompletedKinds[i] : i \in 1..Len(CompletedKinds) }

\* the owner-reference condition on replica-sets and replication-controllers
ownerFree(c) ==
    c.kind \in {ReplicaSetType, ReplicationControllerType} => Len(c.refs) = 0

\* the keys the completion added to the index
added == DOMAIN controllers \ DOMAIN hopped

selectorMatchesNone(kinds) ==
    /\ selectorParsed(args.labelSelector)
    /\ \A c \in fetchedObjects(kinds) :
         ~selectorMatches(selectorKeys(args.labelSelector), c.labels)

\* C15 as stated: with a selector that matches the pod-template labels of no
\* fetched controller the completion of fetchWorkloads adds no entry; with an
\* empty selector every fetched controller that is not a key of the index, and
\* is free of owners if it is a replica-set or replication-controller, becomes one.
C15_CompletionAddsEveryController ==
    listedAll =>
        /\ selectorMatchesNone(ControllerKinds) => controllers = hopped
        /\ args.labelSelector = "" =>
               \A c \in fetchedObjects(ControllerKinds) :
                   (c.name \notin DOMAIN hopped /\ ownerFree(c)) => c.name \in DOMAIN controllers

\* C15, amended: with a selector that matches the pod-template labels of no
\* fetched controller the completion of fetchWorkloads adds no entry; with an
\* empty selector every fetched deployment, replica-set, deployment-config,
\* replication-controller, stateful-set and daemon-set that is not a key of the
\* index, and is free of owners if it is a replica-set or replication-controller,
\* becomes one, and fetched jobs and cron-jobs are never added.
C15_CompletionAddsListedKinds ==
    listedAll =>
        /\ selectorMatchesNone(ControllerKinds) => controllers = hopped
        /\ args.labelSelector = "" =>
               \A c \in fetchedObjects(completedKinds) :
                   (c.name \notin DOMAIN hopped /\ ownerFree(c)) => c.name \in DOMAIN controllers
        /\ \A n \in added :
               \E c \in fetchedObjects(completedKinds) :
                   c.name = n /\ c.kind = controllers[n] /\ ownerFree(c)

\* a pod-less deployment was added while a pod-less job was left out
C15_DeploymentAddedJobLeft ==
    /\ listedAll
    /\ args.labelSelector = ""
    /\ \E n \in added : controllers[n] = DeploymentType
    /\ \E j \in fetchedObjects({JobType, CronJobType}) : j.name \notin DOMAIN controllers

\* a selector that matches no fetched controller, with controllers to leave out
C15_NothingMatched ==
    /\ listedAll
    /\ selectorMatchesNone(ControllerKinds)
    /\ fetchedObjects(completedKinds) # {}

\* C16: a label selector that does not parse is a soft error in fetchWorkloads:
\* it makes no error of what is returned to the caller, and the completion
\* does what it does with no selector.
C16_MalformedSelectorIsSoft ==
    (returned("fetchWorkloads") /\ namespace = "ok"
        /\ args.labelSelector = MalformedSelector) =>
            /\ err # NoError => \E k \in failed : err = ApiError(k)
            /\ listedAll =>
                  /\ err = NoError
                  /\ controllers = completeOrphans(hopped, fetched, "")

\* with a selector that does not parse, the completion added a controller
C16_MalformedSelectorCompleted ==
    /\ listedAll
    /\ args.labelSelector = MalformedSelector
    /\ added # {}

\* fetchWorkloads or fetchWorkload returned after its completion ran
completed == listedAll \/ resolved

\* C17: the completion, in fetchWorkloads and in fetchWorkload, never adds to
\* the index a replica-set or replication-controller that has owner references.
C17_OwnedNeverAdded ==
    completed =>
        \A n \in added :
            \A c \in fetchedObjects({ReplicaSetType, ReplicationControllerType}) :
                (c.name = n /\ c.kind = controllers[n]) => Len(c.refs) = 0

\* an owned replica-set or replication-controller the index did not hold was
\* fetched, and the completion left it out
C17_OwnedLeftOut ==
    /\ completed
    /\ \E c \in fetchedObjects({ReplicaSetType, ReplicationControllerType}) :
         /\ Len(c.refs) > 0
         /\ c.name \notin DOMAIN hopped
         /\ c.name \notin DOMAIN controllers

\* C18 as stated: with no label selector, every fetched deployment,
\* deployment-config, stateful-set and daemon-set, and every fetched replica-set
\* or replication-controller with zero owner references, is in the output of
\* fetchWorkloads as a workload of its own kind.
C18_EveryControllerListed ==
    (listedAll /\ args.labelSelector = "") =>
        \A c \in fetchedObjects(completedKinds) :
            ownerFree(c) => workloadOf(c.name, c.kind)

\* the place of a kind in the order of the completion
completionOrder(kind) ==
    CHOOSE i \in 1..Len(CompletedKinds) : CompletedKinds[i] = kind

\* nothing else claims the name of the controller: no pod without owner
\* references, no controller-owning reference of another kind, no controller
\* the completion visits earlier
unclaimed(c) ==
    /\ \A i \in 1..Len(fetched.pods) :
         fetched.pods[i].name = c.name => Len(fetched.pods[i].refs) > 0
    /\ \A q \in podRefs \cup parentRefs : q.name = c.name => q.kind = c.kind
    /\ \A d \in fetchedObjects(completedKinds) :
         (d.name = c.name /\ ownerFree(d)) =>
             completionOrder(d.kind) >= completionOrder(c.kind)

\* C18, amended: with no label selector, every such controller is in the output
\* of fetchWorkloads as a workload of its own kind, even when no pod references
\* it, provided that no pod without owner references bears its name, no
\* controller-owning reference of a fetched pod, replica-set,
\* replication-controller or job names it with another kind, and no fetched
\* controller that the completion visits earlier bears its name.
C18_UnclaimedControllerListed ==
    (listedAll /\ args.labelSelector = "") =>
        \A c \in fetchedObjects(completedKinds) :
            (ownerFree(c) /\ unclaimed(c)) => workloadOf(c.name, c.kind)

\* a daemon-set that no pod references was added by the completion and listed
C18_PodlessDaemonSetListed ==
    /\ listedAll
    /\ args.labelSelector = ""
    /\ \E c \in fetchedObjects({DaemonSetType}) :
         /\ unclaimed(c)
         /\ c.name \in added
         /\ workloadOf(c.name, c.kind)

-----------------------------------------------------------------------------
(* Properties of the materialization, under Spec *)

\* the kinds the switch of the materialization has a case for
switchKinds == ControllerKinds \cup {PodType}

\* fetchWorkload got a kind from its caller and the index holds another
overridden ==
    /\ resolved
    /\ args.workloadType # ""
    /\ requested \in DOMAIN controllers
    /\ controllers[requested] # args.workloadType

\* the workload fetchWorkload returned is of a kind
returnedAs(kind) ==
    /\ err = NoError
    /\ Len(ws) = 1
    /\ ws[1].name = requested
    /\ ws[1].type = kind

\* C19 as stated: when the caller of fetchWorkload passes a kind and the index
\* resolved the name to a different kind, the materialization uses the requested
\* kind and not the resolved one.
C19_RequestedKindUsed ==
    overridden =>
        /\ err = NoError <=> objectFound(requested, args.workloadType)
        /\ err = NoError => returnedAs(args.workloadType)

\* C19, amended: the switch of the materialization is on the requested kind. A
\* requested kind the switch has a case for is the kind whose fetched object
\* the workload is built from, not-found if there is none; for any other
\* requested kind the default case runs, which links the pods and labels the
\* workload by the resolved kind.
C19_RequestedKindSwitched ==
    overridden =>
        IF args.workloadType \in switchKinds
        THEN /\ err = NoError <=> objectFound(requested, args.workloadType)
             /\ err = NoError => returnedAs(args.workloadType)
        ELSE returnedAs(controllers[requested])

\* a deployment was asked for under a name the index holds as something else,
\* and the deployment of that name was returned
C19_DeploymentForced ==
    /\ overridden
    /\ args.workloadType = DeploymentType
    /\ returnedAs(DeploymentType)

\* the fetched pods a workload holds
podsOf(w) == { i \in 1..Len(fetched.pods) : \E j \in 1..Len(w.pods) : w.pods[j] = fetched.pods[i].name }

\* a workload of a custom kind under a name: its pods are those a replica-set
\* of that name controls, whatever their labels; it is parsed from the first
\* fetched replica-set that has the name as a prefix, if there is one, and
\* from its pods if not; its kind is the custom kind
customBuilt(w, name) ==
    /\ w.type = controllers[name]
    /\ \A i \in podsOf(w) :
         \E r \in controllerRefsOf(fetched.pods[i]) :
             r.kind = ReplicaSetType /\ HasPrefix(r.name, name)
    /\ \A i \in 1..Len(fetched.pods) :
         [name |-> name, kind |-> ReplicaSetType, controller |-> TRUE]
             \in controllerRefsOf(fetched.pods[i]) => i \in podsOf(w)
    /\ IF \E j \in 1..Len(fetched.repset) : HasPrefix(fetched.repset[j].name, name)
       THEN /\ w.parsed.kind = ReplicaSetType
            /\ HasPrefix(w.parsed.name, name)
            /\ hasName(fetched.repset, w.parsed.name)
       ELSE w.parsed.kind = "Pods"

workloadsNamed(name) == { i \in 1..Len(ws) : ws[i].name = name }

\* an entry of a custom kind with no fetched replica-set named after it
customAlone(n) ==
    /\ n \in DOMAIN controllers
    /\ controllers[n] \notin switchKinds
    /\ \A j \in 1..Len(fetched.repset) : ~HasPrefix(fetched.repset[j].name, n)

\* C21: an index entry of a custom kind with no fetched replica-set that has
\* its name as a prefix still gives one workload in the output of
\* fetchWorkloads, the minimal one: the name, the custom kind and the pods
\* matched by owner reference. It is never dropped as not found.
C21_CustomWithoutReplicaSetListed ==
    listedAll =>
        \A n \in DOMAIN controllers :
            customAlone(n) =>
                /\ Cardinality(workloadsNamed(n)) = 1
                /\ \A i \in workloadsNamed(n) :
                     /\ customBuilt(ws[i], n)
                     /\ ws[i].parsed = [kind |-> "Pods", name |-> n]

\* a custom controller is listed while a replica-set of another name was fetched
C21_MinimalBesideReplicaSet ==
    /\ listedAll
    /\ fetched.repset # <<>>
    /\ \E n \in DOMAIN controllers : customAlone(n) /\ workloadOf(n, CustomType)

\* C22: every workload in the output of fetchWorkloads whose kind the switch
\* has a case for is a fetched object of that kind and of exactly that name,
\* and an index entry of such a kind with no such object gives no workload.
C22_KnownKindsAreFetchedObjects ==
    listedAll =>
        /\ \A i \in 1..Len(ws) :
               ws[i].type \in switchKinds =>
                   /\ objectFound(ws[i].name, ws[i].type)
                   /\ ws[i].parsed = [kind |-> ws[i].type, name |-> ws[i].name]
        /\ \A n \in DOMAIN controllers :
               (controllers[n] \in switchKinds /\ ~objectFound(n, controllers[n])) =>
                   workloadsNamed(n) = {}

\* an entry of a known kind without its object was left out, another was listed
C22_MissingObjectLeftOut ==
    /\ listedAll
    /\ ws # <<>>
    /\ \E n \in DOMAIN controllers :
         /\ controllers[n] \in ControllerKinds
         /\ ~objectFound(n, controllers[n])
         /\ workloadsNamed(n) = {}

\* a name sorts before another (the byte order sort.Strings uses)
nameBefore(a, b) ==
    \E i, j \in 1..Len(NamesSorted) : i < j /\ NamesSorted[i] = a /\ NamesSorted[j] = b

\* C36: the output of fetchWorkloads is in strictly ascending order of workload
\* name, so no two of its workloads have the same name; every workload is named
\* after an entry of the index, and an entry yields at most one workload.
C36_SortedOneEach ==
    listedAll =>
        /\ \A i, j \in 1..Len(ws) : i < j => nameBefore(ws[i].name, ws[j].name)
        /\ \A i \in 1..Len(ws) : ws[i].name \in DOMAIN controllers
        /\ \A n \in DOMAIN controllers : Cardinality(workloadsNamed(n)) <= 1

\* two workloads of two kinds are returned, in the order of their names
C36_TwoInOrder ==
    /\ listedAll
    /\ Len(ws) = 2
    /\ ws[1].name = "a" /\ ws[2].name = "a-1"
    /\ ws[1].type # ws[2].type

-----------------------------------------------------------------------------
(* Properties of updateWorkload when no kind takes the patch, under Spec *)

\* C34: updateWorkload does not report success when nothing was patched: when
\* every kind it tried answered not-found, or it tried no kind, it returns an
\* error and not nil.
C34_NothingPatchedIsError ==
    (returned("updateWorkload") /\ namespace = "ok" /\ patched = {}) => err # NoError

-----------------------------------------------------------------------------
(* Properties of the pod scan and of the range over the index, under Spec *)

\* C26: every fetched pod with no controller owner reference, a pod whose owner
\* references all have the controller flag unset or false included, becomes its
\* own one-pod workload of kind Pod in the output of fetchWorkloads.
C26_UncontrolledPodListed ==
    listedAll =>
        \A i \in 1..Len(fetched.pods) :
            controllerRefsOf(fetched.pods[i]) = {} => onePodWorkload(fetched.pods[i])

\* the fetched pods but the i-th
podsBut(i) == SubSeq(fetched.pods, 1, i - 1) \o SubSeq(fetched.pods, i + 1, Len(fetched.pods))

\* the pod has owner references and none of them is a controller's
uncontrolled(pod) == Len(pod.refs) # 0 /\ controllerRefsOf(pod) = {}

\* C26: every fetched pod with no owner reference at all, whose name no
\* controller-owning reference of a fetched pod, replica-set,
\* replication-controller or job names, becomes its own one-pod workload of kind
\* Pod in the output of fetchWorkloads; a pod that has owner references, all with
\* the controller flag unset or false, is skipped by the pod scan: the index
\* after the scan is the one the other pods give.
C26_OwnerlessListedUncontrolledSkipped ==
    listedAll =>
        \A i \in 1..Len(fetched.pods) :
            /\ ( /\ Len(fetched.pods[i].refs) = 0
                 /\ \A q \in podRefs \cup parentRefs : q.name # fetched.pods[i].name )
               => onePodWorkload(fetched.pods[i])
            /\ uncontrolled(fetched.pods[i])
               => scan = findControllers(NoControllers, podsBut(i))

\* a pod without owner references is listed as a Pod, and a pod whose only
\* reference is not a controller's is in no workload
C26_UncontrolledPodLeftOut ==
    /\ listedAll
    /\ \E i, j \in 1..Len(fetched.pods) :
         /\ Len(fetched.pods[i].refs) = 0
         /\ onePodWorkload(fetched.pods[i])
         /\ uncontrolled(fetched.pods[j])
         /\ ~workloadNamed(fetched.pods[j].name)
         /\ \A k \in 1..Len(ws) : \A n \in 1..Len(ws[k].pods) :
                ws[k].pods[n] # fetched.pods[j].name

\* the kinds the range over the index resolves to their parent
ChildKinds == {ReplicaSetType, ReplicationControllerType, JobType}

\* the entry n of the index after the range is a child kind, its object is
\* fetched and has a controller-owning parent reference
ownedChild(n) ==
    /\ hopped[n] \in ChildKinds
    /\ hasName(slotOf(hopped[n], fetched), n)
    /\ controllerRefsOf(slotOf(hopped[n], fetched)[indexOf(slotOf(hopped[n], fetched), n)]) # {}

\* the controller-owning parent references of the fetched object of the entry n
parentsOf(n) ==
    controllerRefsOf(slotOf(hopped[n], fetched)[indexOf(slotOf(hopped[n], fetched), n)])

\* C27 as stated: after the range over the index, no entry of kind ReplicaSet,
\* ReplicationController or Job has a fetched object with a controller-owning
\* parent reference, but a job whose cron-job parent is not among the fetched
\* cron-jobs.
C27_NoOwnedChildButOrphanJob ==
    listedAll =>
        \A n \in DOMAIN hopped :
            ownedChild(n) =>
                /\ hopped[n] = JobType
                /\ \E r \in parentsOf(n) :
                      r.kind = CronJobType /\ ~hasName(fetched.conjbs, r.name)

\* C28: the range walks exactly one ownership hop: an entry the range itself
\* created as the parent of a child (a key the pod scan did not enter) is not
\* replaced by its own parent, so it is still in the index after every later
\* iteration of the same call.
C28_OneHop ==
    [][ (pc = "hop" /\ pc' = "hop") =>
            \A n \in DOMAIN controllers \ DOMAIN scan : n \in DOMAIN controllers' ]_vars

\* the range over the index in one fixed order, every created entry produced
RECURSIVE rangeInOrder(_, _, _)
rangeInOrder(m, left, f) ==
    IF left = {} THEN m
    ELSE LET cname == CHOOSE n \in left : TRUE
             st    == resolveController(m, cname, f)
         IN  rangeInOrder(st.m, ((left \ {cname}) \cap DOMAIN st.m) \cup st.fresh, f)

\* what fetchWorkloads returns for the fetched lists when its range is rangeInOrder
listInOrder ==
    LET m == completeOrphans(rangeInOrder(scan, DOMAIN scan, fetched), fetched,
                             args.labelSelector)
    IN  buildWorkloads(sortStrings(DOMAIN m), m, fetched)

\* C32: resolution is deterministic: for the same fetched lists fetchWorkloads
\* returns the same workloads (names, kinds and pods) whatever the order in
\* which the range over the index produced its entries.
C32_Deterministic == listedAll => ws = listInOrder

-----------------------------------------------------------------------------
(* Properties of the lookup with the kind found as workload type, under SpecHint *)

\* fetchWorkload returned for the kind an earlier call without kind had found
hinted == returned("fetchWorkload") /\ view.listed /\ args.workloadType # ""

\* C33: the workload type is only an optimisation: when fetchWorkload with no
\* workload type returns a workload of kind K, one of the known controller
\* kinds or Pod, fetchWorkload with workload type K on the same contents
\* returns the same workload and not NotFound.
C33_HintKeepsWorkload ==
    hinted => (err = NoError /\ ws = view.ws)

-----------------------------------------------------------------------------
(* Properties of the list and the detail of the same contents, under SpecViews *)

\* C30: for the same contents, the kind under which a name appears in the
\* output of fetchWorkloads is the kind of the workload fetchWorkload returns
\* for that name with no workload type, and a name of the list is never
\* answered NotFound by fetchWorkload.
C30_ListAndDetailAgree ==
    (returned("fetchWorkload") /\ view.listed) =>
        \A i \in 1..Len(view.ws) :
            view.ws[i].name = requested =>
                /\ err = NoError
                /\ Len(ws) = 1
                /\ ws[1].type = view.ws[i].type

-----------------------------------------------------------------------------
(* Properties of the operations of the service, under SpecService *)

CoreOperations == {"GetWorkloadList", "GetWorkload", "UpdateWorkload", "GetPods"}

onlyGets(cs) == \A c \in cs : c.verb = "get"

\* C29 as stated: no operation of the workload core mutates, invalidates or
\* refreshes the cache: it calls only gets on it and leaves it as it found it.
C29_CoreOnlyReadsCache ==
    svc.fn \in CoreOperations => (onlyGets(svc.cacheCalls) /\ kialiCache = svc.before)

\* C29: GetWorkloadList, GetWorkload and GetPods call only gets on the cache and
\* leave it as they found it; UpdateWorkload refreshes the namespace in the
\* cache, once, when there is a cache and updateWorkload returned no error, and
\* makes no other call on the cache but gets.
C29_OnlyUpdateRefreshesCache ==
    /\ svc.fn \in CoreOperations \ {"UpdateWorkload"} =>
            (onlyGets(svc.cacheCalls) /\ kialiCache = svc.before)
    /\ svc.fn = "UpdateWorkload" =>
            IF svc.before.present /\ svc.patched
            THEN /\ kialiCache = RefreshNamespace(svc.before)
                 /\ {c \in svc.cacheCalls : c.verb # "get"}
                        = {[verb |-> "refresh", what |-> "namespace"]}
            ELSE /\ kialiCache = svc.before
                 /\ onlyGets(svc.cacheCalls)

\* UpdateWorkload patched the workload of a cached namespace: the namespace was
\* refreshed and the workload then read from the cache
C29_RefreshedAfterPatch ==
    /\ svc.fn = "UpdateWorkload" /\ svc.patched /\ svc.err = NoError
    /\ svc.before.present /\ svc.before.refreshes = 0
    /\ kialiCache.refreshes = 1
    /\ cacheGet(DeploymentType) \in svc.cacheCalls

-----------------------------------------------------------------------------
(* Properties of the order of the steps of UpdateWorkload, under SpecUpdate *)

\* C35: UpdateWorkload orders its steps: the patch first; when it succeeded the
\* namespace is refreshed in the cache (when there is a cache) and the workload
\* is fetched after that; when it failed the cache is not refreshed, no
\* workload is fetched and the error of the patch is returned.
C35_PatchRefreshFetch ==
    /\ svc.fn = "RefreshNamespace" => svc.patched
    /\ svc.fn = "UpdateWorkload" =>
          IF svc.patched
          THEN /\ svc.steps = IF svc.before.present
                              THEN <<"updateWorkload", "RefreshNamespace", "GetWorkload">>
                              ELSE <<"updateWorkload", "GetWorkload">>
               /\ svc.before.present => kialiCache = RefreshNamespace(svc.before)
          ELSE /\ svc.steps = <<"updateWorkload">>
               /\ kialiCache = svc.before
               /\ svc.cacheCalls = {}
               /\ svc.err \in PatchAnswers \ {NoError}

\* a patch succeeded on a cached namespace: refreshed, then fetched from the cache
C35_RefreshedThenFetched ==
    /\ svc.fn = "UpdateWorkload"
    /\ svc.patched
    /\ svc.steps = <<"updateWorkload", "RefreshNamespace", "GetWorkload">>
    /\ svc.before.refreshes = 0 /\ kialiCache.refreshes = 1
    /\ cacheGet(PodType) \in svc.cacheCalls
    /\ svc.err = NoError

-----------------------------------------------------------------------------
(* Properties of the proxy-status loop, under SpecProxy *)

\* the names of the pods of the workload that have a sidecar
sidecarPods == {proxy.given[i].name : i \in {j \in DOMAIN proxy.given :
                                                HasIstioSidecar(proxy.given[j])}}

\* C23: a failure of GetPodProxyStatus for any pod never makes fetchWorkloads or
\* fetchWorkload return an error (the error depends on cnFound alone) and never
\* removes the workload or one of its pods from the result; the lookup is made
\* only for pods flagged as running a sidecar.
C23_ProxyFailureIsSoft ==
    /\ proxy.lookups \subseteq sidecarPods
    /\ proxy.pc = "done" =>
         /\ proxy.err = IF proxy.fn = "fetchWorkload" /\ ~proxy.cnFound
                        THEN NotFound ELSE NoError
         /\ proxy.cnFound =>
              /\ Len(proxy.ws) = 1
              /\ Len(proxy.ws[1].pods) = Len(proxy.given)
              /\ \A i \in DOMAIN proxy.given :
                    proxy.ws[1].pods[i].name = proxy.given[i].name

\* a workload is returned with two pods: the lookup failed for the one with a
\* sidecar, whose status is left empty, and was not made for the other
C23_FailedLookupKeptPod ==
    /\ proxy.pc = "done" /\ proxy.err = NoError
    /\ Len(proxy.ws) = 1 /\ Len(proxy.ws[1].pods) = 2
    /\ proxy.warned # {}
    /\ proxy.lookups = proxy.warned
    /\ \E i \in DOMAIN proxy.ws[1].pods :
         /\ proxy.ws[1].pods[i].name \in proxy.warned
         /\ proxy.ws[1].pods[i].proxyStatus = NoStatus
    /\ \E i \in DOMAIN proxy.given : ~HasIstioSidecar(proxy.given[i])

-----------------------------------------------------------------------------
(* Properties of the calls of a batch, under SpecConfig *)

\* C24: every kind fetchWorkloads fetches is served by the cache when
\* IsNamespaceCached(namespace) is true and by the live API when it is false.
C24_CachedNamespaceServedByCache ==
    batch.fn = "fetchWorkloads" =>
        \A c \in issued : c.via = IF env.cached THEN "cache" ELSE "k8s"

\* C25: a skipped kind is never fetched: deployment-configs are fetched only on
\* OpenShift, and a kind of the exclusion set is fetched by neither
\* fetchWorkloads nor fetchWorkload and is not patched by updateWorkload.
C25_SkippedKindsNeverFetched ==
    batch.fn \in {"fetchWorkloads", "fetchWorkload", "updateWorkload"} =>
        \A c \in issued :
            /\ c.call = DeploymentConfigType => env.openshift
            /\ c.call \notin env.excluded

-----------------------------------------------------------------------------
(* Properties of the time window of getParsedLogs, under SpecLogs *)

\* the timestamp of the first line of the answer that parses, NoTime when none does
firstTimestamp(lines) ==
    LET parsed == SelectSeq(lines, LAMBDA t : t # Unparsable) IN
    IF parsed = <<>> THEN NoTime ELSE parsed[1]

\* C31: with a duration given, the time window of getParsedLogs starts at
\* sinceTime when sinceTime is set and at the timestamp of the first log
\* message only when it is not: no entry returned has a timestamp after the
\* start of the window plus the duration.
C31_WindowFromSinceTime ==
    (podLog.called /\ podLog.opts.duration # NoTime) =>
        LET start == IF podLog.opts.sinceTime # NoTime THEN podLog.opts.sinceTime
                     ELSE firstTimestamp(podLog.lines)
        IN  \A i \in 1..Len(podLog.entries) :
                podLog.entries[i] <= start + podLog.opts.duration

-----------------------------------------------------------------------------
(* Properties of Check and Stop on the stop channel, under SpecCache *)

\* Check can take no step and has not returned: its send is on a nil channel
checkBlocked == impl.check = "send" /\ impl.sendOn = "nil"

\* C38: Check never blocks forever and never panics: when Stop closes the stop
\* channel while createCache waits for the informers to sync, createCache
\* returns false, in every interleaving of Check and Stop.
C38_CheckReturnsFalse ==
    /\ impl.check # "panic"
    /\ ~checkBlocked
    /\ impl.check = "send" => (impl.sendOn = "chan" /\ ~impl.closed)

\* C39: Stop closes the stop channel at most once: no Stop panics on its
\* close, the channel has been closed exactly once when the Stop calls have
\* returned, and a Stop after the first is a no-op.
C39_ClosedOnce ==
    /\ impl.closes <= 1
    /\ \A i \in 1..MaxStops : impl.stop[i] # "panic"
    /\ (\A i \in 1..MaxStops : impl.stop[i] = "done") => impl.closes = 1

-----------------------------------------------------------------------------
(* Properties of the fetch batches, under SpecBatch *)

\* C11: in GetWorkloadList, for a namespace that GetNamespace rejects no fetch
\* at all is issued, the fetches of the linked Istio resources included.
C11_RejectedNamespaceNoFetch ==
    (batch.fn = "GetWorkloadList" /\ access = "denied") => issued = {}

allDone == \A i \in DOMAIN task : task[i] = "done"

\* C12: in every fetch batch the error sends never exceed the capacity of the
\* batch's error channel: no task blocks on "errChan <- err".
C12_NoSendBlocks ==
    /\ errChan <= batch.cap
    /\ \A i \in DOMAIN task : task[i] # "blocked"

\* every task that sends has failed and the channel is full; the batch whose
\* channel is smaller than its task count has filled it too
C12_ChannelFull ==
    /\ allDone
    /\ errChan = batch.cap
    /\ batch.cap < Len(batch.tasks)

\* C13: the caller of a fetch batch reads the error channel and the result
\* slots only after every task of the batch has completed.
C13_ReadAfterAllDone ==
    caller \in {"read", "done"} => allDone

C13_ReadsSevenSlots ==
    /\ caller = "read"
    /\ batch.fn = "GetWorkloadList"
    /\ Len(task) = Len(workloadResources) + 1
    /\ errChan = 0

\* C14: within a fetch batch no two tasks write the same variable and no
\* task reads a variable another task writes.
C14_TasksShareNothing ==
    \A a \in wrote : \A b \in wrote \cup readBy : a[2] = b[2] => a[1] = b[1]

C14_EveryTaskWrote ==
    /\ allDone
    /\ Len(task) > 1
    /\ \A i \in DOMAIN task : \E a \in wrote : a[1] = i

\* the tasks of the batch that have not yet called wg.Done()
notDone == {i \in DOMAIN task : task[i] # "done"}

\* C37: every fetch batch terminates: the count given to wg.Add is the number
\* of tasks the batch starts; every task calls Done once, on every path, so
\* the counter is the number of tasks that have not finished; a task that was
\* started can always run to its end, and once every task has finished the
\* caller's wg.Wait() returns and the function returns.
C37_BatchTerminates ==
    /\ batch.add = Len(batch.tasks)
    /\ caller \in {"spawn", "wait", "read"} => wg = Cardinality(notDone)
    /\ \A i \in DOMAIN task :
          task[i] = "run" => \E answer \in CallAnswers : ENABLED TaskRun(i, answer)
    /\ (caller = "wait" /\ allDone) => ENABLED Wait
    /\ caller = "read" => ENABLED Read
    /\ caller = "done" => ENABLED EndBatch

\* the nine tasks of GetAppList have all failed and called Done: the wait is over
C37_NineDone ==
    /\ batch.fn = "GetAppList"
    /\ batch.add = 9
    /\ caller = "read"
    /\ allDone
    /\ wg = 0
    /\ errChan = 9

====
